---- MODULE Spec2Model ----
(***************************************************************************)
(* Model of the quarto-cli document segmenter (breakQuartoMd) and of the   *)
(* YAML automation entry points that consume its cells.                    *)
(*                                                                         *)
(* A line is a sequence of one-character strings; a document is the        *)
(* sequence of lines that lines(src) yields.  The regular expressions of   *)
(* break-quarto-md.ts are operators that match character by character.     *)
(***************************************************************************)
EXTENDS Integers, Sequences, FiniteSets, TLC

\* ------------------------------------------------------------------------
\* Bounds of the model
\* ------------------------------------------------------------------------

\* longest document, in lines, that the segmenter is run on
MaxLines == 4

\* number of requests that call withValidator concurrently
NumRequests == 2

\* longest editing line, in characters, a completion or lint is asked on
MaxLineLen == 3

\* largest number of alternatives of a union schema
MaxAlternatives == 2

\* largest number of nested mappedString calls behind a mapped text
MaxSlices == 3

\* longest text, in characters, cut out by a slice of arbitrary ranges
MaxTextLen == 2

\* the most blocks of a markdown document handed to the entry points
MaxBlocks == 3
\* most lines of a document handed to validateDocumentFromSource
MaxDocLines == 6

\* most validators made by cellLabelValidator, and most calls of them
MaxValidators == 2
MaxCalls == 3

\* ------------------------------------------------------------------------
\* Lines and languages the documents are built from
\* ------------------------------------------------------------------------

\* the backtick character (a backtick cannot be written in a string here)
Tick == "BACKTICK"

LineEmpty == << >>
LineBlank == << " " >>
LineText == << "a" >>
LineDashes == << "-", "-", "-" >>
LineDashesWs == << "-", "-", "-", " " >>
LineFence3 == << Tick, Tick, Tick >>
LineFence4 == << Tick, Tick, Tick, Tick >>
LineCellR3 == << Tick, Tick, Tick, "{", "r", "}" >>
LineCellR4 == << Tick, Tick, Tick, Tick, "{", "r", "}" >>
LineCellROpts == << " ", Tick, Tick, Tick, "{", "r", ",", "x", "}" >>
LineCellRx == << Tick, Tick, Tick, "{", "r", "x", "}" >>
LineTextDashes == << "a", "-", "-", "-" >>

\* the lines a document is made of
LinePool ==
  { LineEmpty, LineBlank, LineText, LineDashes, LineDashesWs, LineFence3,
    LineFence4, LineCellR3, LineCellR4, LineCellROpts, LineCellRx }

\* the target languages breakQuartoMd is called with
Languages == { << "r" >> }

\* the requests that may be in flight at the same time
Requests == 1..NumRequests

\* the schema identities: the front matter and the options of a language
Schemas == { "front-matter", "r" }

\* what attemptParsesAtLine yields for a request, attempt by attempt: an
\* attempt whose annotation is null, one that validates without errors, one
\* that validates with an error
AttemptSequences ==
  { << >>, << "null", "error" >>, << "clean", "error" >> }

\* the characters of the editing lines
LineChars == { " ", "a", ":", "-" }

\* the editing lines up to the cursor
EditLines == UNION { [ 1..n -> LineChars ] : n \in 0..MaxLineLen }

\* core.kLangCommentChars[language] + "| " for the language r
kCommentPrefix == << "#", "|", " " >>

\* the lines of a code cell: an option line, or a line shorter than the
\* comment prefix
ScriptLines == { kCommentPrefix \o l : l \in EditLines } \cup { << "a" >> }

\* the completions core.schemaCompletions may offer
CompletionPool ==
  { [ type |-> "key", value |-> << "a", ":" >> ],
    [ type |-> "value", value |-> << "a" >> ],
    [ type |-> "value", value |-> << "-" >> ] }

\* the paths locateCursor and locateFromIndentation may return: keys as the
\* editing line spells them
LocatedPaths == { << << "a" >> >>, << << "b" >>, << "a" >> >> }

\* the property names of the object schemas
Keys == { "a", "b" }

\* the path segments: property names and an array index
Segments == Keys \cup { "0" }

\* the paths navigateSchema is called with
Paths == UNION { [ 1..n -> Segments ] : n \in 0..2 }

\* scalar schemas
ScalarSchemas == { [ type |-> "scalar", id |-> i ] : i \in 1..2 }

\* object schemas with scalar properties
ObjectSchemas ==
  { [ type |-> "object", properties |-> f ] :
      f \in UNION { [ K -> ScalarSchemas ] : K \in SUBSET Keys } }

\* array schemas
ArraySchemas == { [ type |-> "array", items |-> i ] : i \in ScalarSchemas }

\* union schemas of scalar, object and array alternatives
UnionSchemas ==
  LET alts == ScalarSchemas \cup ObjectSchemas \cup ArraySchemas
  IN { [ type |-> "anyOf", anyOf |-> a ] :
         a \in UNION { [ 1..k -> alts ] : k \in 1..MaxAlternatives } }

\* the schemas navigateSchema is called with: the above, and objects with a
\* property whose schema is a union
SchemaPool ==
  ScalarSchemas \cup ObjectSchemas \cup ArraySchemas \cup UnionSchemas \cup
    { [ type |-> "object", properties |-> [ k \in { "a" } |-> u ] ] :
        u \in UnionSchemas }

\* "---"
Dashes == << "-", "-", "-" >>

\* the texts handed to asMappedString: a front matter with a line, one
\* followed by prose, an empty front matter, a front matter whose line ends
\* with "---", and a code cell with its fence line
RootTexts ==
  { Dashes \o << "\n", "a", "\n" >> \o Dashes,
    Dashes \o << "\n", "a", "\n" >> \o Dashes \o << "\n", "b" >>,
    Dashes \o << "\n" >> \o Dashes \o << "\n" >>,
    Dashes \o << "\n", "a" >> \o Dashes \o << "\n" >> \o Dashes,
    << "{", "r", "}", "\n", "a", "\n", "b" >> }

\* the executed files of a book render
BookFiles == { "index", "intro", "summary" }

\* the formats of a book: one that is rendered file by file and two that
\* are rendered as a single file
BookFormats == { "html", "pdf", "epub" }

\* the cells handed to a label validator: options.label and metadata.name
LabelCells ==
  { [ label |-> << >>, name |-> << >> ],
    [ label |-> << "a" >>, name |-> << >> ],
    [ label |-> << "#", "a" >>, name |-> << "b" >> ],
    [ label |-> << >>, name |-> << "a", " ", "b" >> ] }

\* the schema definitions that initAutomation registers, in the order of
\* Object.entries
SchemaDefs == << "front-matter", "r" >>

\* ------------------------------------------------------------------------
\* State
\* ------------------------------------------------------------------------

VARIABLES
  language,          \* the language argument of breakQuartoMd
  doc,               \* the lines of src read so far
  pc,                \* "lines": in the for loop, "done": nb returned
  lineBuffer,        \* lineBuffer
  cells,             \* nb.cells
  parsedFrontMatter, \* parsedFrontMatter
  inYaml,            \* inYaml
  inCodeCell,        \* inCodeCell
  inCode             \* inCode

segVars ==
  << language, doc, pc, lineBuffer, cells, parsedFrontMatter, inYaml,
     inCodeCell, inCode >>

VARIABLES
  host,              \* the process: "editor" (automation.js) or "cli"
  reqPc,             \* per request: where its withValidator call is
  reqKind,           \* per request: "lint" or "document"
  reqSchema,         \* per request: the schema handed to withValidator
  reqAttempts,       \* per request: what attemptParsesAtLine yields
  lints,             \* per request: the list its function returned
  validatorQueue,    \* per schema: the calls waiting for or holding the slot
  compiled,          \* per schema: how often its validator was compiled
  validatorErrors,   \* per schema: the errors of the validator's last run
  automationInit     \* automationInit

queueVars ==
  << host, reqPc, reqKind, reqSchema, reqAttempts, lints, validatorQueue,
     compiled, validatorErrors, automationInit >>

VARIABLES
  aPc,               \* where the YAML completion or lint function is
  aKind,             \* kind: "completions" or "validation"
  aPrefix,           \* commentPrefix.length
  aLine,             \* context.line: the editing line up to the cursor
  aColumn,           \* context.position.column
  aTried,            \* the parses attemptParsesAtLine has tried so far
  aResult            \* what the function returned

autoVars == << aPc, aKind, aPrefix, aLine, aColumn, aTried, aResult >>

VARIABLES
  nPc,               \* where the navigateSchema call of completions() is
  nSchema,           \* schema
  nPath,             \* path
  nResult            \* matchingSchemas

navVars == << nPc, nSchema, nPath, nResult >>

VARIABLES
  mPc,               \* "idle", or "text": a mapped text is at hand
  mRoot,             \* the text handed to asMappedString
  mText,             \* the mapped text at hand
  mTrace,            \* per offset of mText.value, its offset in mRoot
  mDepth             \* the number of mappedString calls behind mText

mapVars == << mPc, mRoot, mText, mTrace, mDepth >>

VARIABLES
  tPc,               \* where the getCompletions or getLint call is
  tKind,             \* kind: "completions" or "validation"
  tFiletype,         \* context.filetype
  tCells,            \* result.cells of core.breakQuartoMd(context.code)
  tRow,              \* context.position.row
  tColumn,           \* context.position.column
  tFound,            \* the place of foundCell in the cells, 0: undefined
  tCalls,            \* the contexts handed to the YAML functions
  tResult            \* what the call gave its caller

toolVars ==
  << tPc, tKind, tFiletype, tCells, tRow, tColumn, tFound, tCalls, tResult >>

VARIABLES
  dPc,               \* where validateDocumentFromSource is
  dCell,             \* the place in nb.cells of the cell the loop is at
  dResult,           \* result
  dLog               \* what ran so far: validator runs and cell outcomes

docVars == << dPc, dCell, dResult, dLog >>

VARIABLES
  bPc,               \* where the renderer of bookPandocRenderer is
  bExecuted,         \* executedFiles, format by format in insertion order
  bRendered,         \* renderedFiles
  bCleaned,          \* per file, the number of cleanupExecutedFile calls
  bAccumulated,      \* the files onRender has put in executedFiles
  bResult            \* what onComplete returned

bookVars == << bPc, bExecuted, bRendered, bCleaned, bAccumulated, bResult >>

VARIABLES
  lLabels,           \* cellLabels of each validator made so far
  lLog               \* the calls of the validators: cell, outcome

labelVars == << lLabels, lLog >>

lateVars == << bookVars, labelVars >>

\* the state of the editor entry points and of the document validation
moreVars == << toolVars, docVars, lateVars >>

\* what the actions on schema navigation and mapped text leave alone
\* besides each other
otherVars == << autoVars, moreVars >>

\* the state of the pure functions and of the requests built on them
pureVars == << navVars, mapVars, moreVars >>

auxVars == << autoVars, pureVars >>

vars == << segVars, queueVars, auxVars >>

\* ------------------------------------------------------------------------
\* String helpers (String.prototype.trim, startsWith)
\* ------------------------------------------------------------------------

WhiteSpace == { " ", "\t", "\n" }

AllSpace(s) == \A i \in 1..Len(s) : s[i] \in WhiteSpace

HasPrefix(s, p) == Len(s) >= Len(p) /\ SubSeq(s, 1, Len(p)) = p

SetMin(S) == CHOOSE x \in S : \A y \in S : x <= y

SetMax(S) == CHOOSE x \in S : \A y \in S : x >= y

\* s without its longest prefix made of characters of cs
SkipLeading(s, cs) ==
  LET stop == { i \in 1..Len(s) : s[i] \notin cs }
  IN IF stop = {} THEN << >> ELSE SubSeq(s, SetMin(stop), Len(s))

\* s without its longest suffix made of characters of cs
SkipTrailing(s, cs) ==
  LET stop == { i \in 1..Len(s) : s[i] \notin cs }
  IN IF stop = {} THEN << >> ELSE SubSeq(s, 1, SetMax(stop))

\* line.trim().length === 0
TrimIsEmpty(line) == AllSpace(line)

\* ------------------------------------------------------------------------
\* The regular expressions of breakQuartoMd
\* ------------------------------------------------------------------------

\* /^---\s*$/
yamlRegEx(line) ==
  /\ HasPrefix(line, << "-", "-", "-" >>)
  /\ AllSpace(SubSeq(line, 4, Len(line)))

\* the opening-fence expression with exactly three backticks in place of
\* three or more
startCodeCellRegExThreeTicks(line) ==
  LET s1 == SkipLeading(line, WhiteSpace)
      s2 == SkipLeading(s1, { Tick })
      ticks == Len(s1) - Len(s2)
      s3 == SkipLeading(s2, WhiteSpace)
      afterBrace == IF s3 = << >> THEN << >> ELSE Tail(s3)
      rest == SubSeq(afterBrace, Len(language) + 1, Len(afterBrace))
      body == SkipTrailing(rest, WhiteSpace)
  IN /\ ticks = 3
     /\ s3 # << >>
     /\ s3[1] = "{"
     /\ HasPrefix(afterBrace, language)
     /\ body # << >>
     /\ body[Len(body)] = "}"
     /\ (Len(body) = 1 \/ body[1] \in { " ", "," })

\* "^\\s*TTT+\\s*\\{" + language + "( *[ ,].*)?\\}\\s*$", T the backtick
startCodeCellRegEx(line) ==
  LET s1 == SkipLeading(line, WhiteSpace)
      s2 == SkipLeading(s1, { Tick })
      ticks == Len(s1) - Len(s2)
      s3 == SkipLeading(s2, WhiteSpace)
      afterBrace == IF s3 = << >> THEN << >> ELSE Tail(s3)
      rest == SubSeq(afterBrace, Len(language) + 1, Len(afterBrace))
      body == SkipTrailing(rest, WhiteSpace)
  IN /\ ticks >= 3
     /\ s3 # << >>
     /\ s3[1] = "{"
     /\ HasPrefix(afterBrace, language)
     /\ body # << >>
     /\ body[Len(body)] = "}"
     /\ (Len(body) = 1 \/ body[1] \in { " ", "," })

\* /^TTT/, T the backtick
startCodeRegEx(line) == HasPrefix(line, << Tick, Tick, Tick >>)

\* /^TTT\s*$/, T the backtick
endCodeRegEx(line) ==
  /\ HasPrefix(line, << Tick, Tick, Tick >>)
  /\ AllSpace(SubSeq(line, 4, Len(line)))

\* ------------------------------------------------------------------------
\* Cells and the flush of the line buffer
\* ------------------------------------------------------------------------

\* cell_type of a cell: "markdown", "raw" or { language }
MarkdownCell == [ tag |-> "markdown" ]
RawCell == [ tag |-> "raw" ]
CodeCell == [ tag |-> "code", language |-> language ]

mdTrimEmptyLines(lines) ==
  LET nonEmpty == { i \in 1..Len(lines) : ~TrimIsEmpty(lines[i]) }
  IN IF nonEmpty = {}
       THEN << >>
       ELSE SubSeq(lines, SetMin(nonEmpty), SetMax(nonEmpty))

\* the source of a cell without the final mdTrimEmptyLines
CellSourceUntrimmed(buf) ==
  LET b1 == IF buf[1] = << >> THEN Tail(buf) ELSE buf
      b2 == IF b1 # << >> /\ b1[Len(b1)] = << >>
              THEN SubSeq(b1, 1, Len(b1) - 1)
              ELSE b1
  IN [ i \in 1..Len(b2) |->
       IF i < Len(b2) THEN b2[i] \o << "\n" >> ELSE b2[i] ]

\* the source of the cell built from buffer buf: one leading and one
\* trailing "" are spliced off, every line but the last gets a "\n", and the
\* result goes through mdTrimEmptyLines
CellSource(buf) ==
  LET b1 == IF buf[1] = << >> THEN Tail(buf) ELSE buf
      b2 == IF b1 # << >> /\ b1[Len(b1)] = << >>
              THEN SubSeq(b1, 1, Len(b1) - 1)
              ELSE b1
      source == [ i \in 1..Len(b2) |->
                  IF i < Len(b2) THEN b2[i] \o << "\n" >> ELSE b2[i] ]
  IN mdTrimEmptyLines(source)

\* nb.cells after flushLineBuffer(cell_type) has run on buffer buf
FlushedCells(buf, cell_type) ==
  IF Len(buf) = 0
    THEN cells
    ELSE IF Len(CellSource(buf)) > 0
      THEN Append(cells, [ cell_type |-> cell_type,
                           source |-> CellSource(buf) ])
      ELSE cells

\* a flush that pushes the cell and leaves the lines in the buffer
flushLineBufferKeepsLines(buf, cell_type) ==
  /\ cells' = FlushedCells(buf, cell_type)
  /\ lineBuffer' = buf

\* flushLineBuffer(cell_type) on buffer buf: the cell is pushed if it has a
\* source, and the buffer is emptied
flushLineBuffer(buf, cell_type) ==
  /\ cells' = FlushedCells(buf, cell_type)
  /\ lineBuffer' = << >>

\* ------------------------------------------------------------------------
\* breakQuartoMd: one action per branch of the loop body
\* ------------------------------------------------------------------------

\* no request has called withValidator
QueueIdle ==
  /\ reqPc = [ r \in Requests |-> "idle" ]
  /\ reqKind = [ r \in Requests |-> "none" ]
  /\ reqSchema = [ r \in Requests |-> "none" ]
  /\ reqAttempts = [ r \in Requests |-> << >> ]
  /\ lints = [ r \in Requests |-> {} ]
  /\ validatorQueue = [ s \in Schemas |-> << >> ]
  /\ compiled = [ s \in Schemas |-> 0 ]
  /\ validatorErrors = [ s \in Schemas |-> {} ]
  /\ automationInit = FALSE

\* no completion or lint function has been called
AutoIdle ==
  /\ aPc = "idle"
  /\ aKind = "none"
  /\ aPrefix = 0
  /\ aLine = << >>
  /\ aColumn = 0
  /\ aTried = << >>
  /\ aResult = [ tag |-> "none" ]

\* navigateSchema has not been called
NavIdle ==
  /\ nPc = "idle"
  /\ nSchema = [ type |-> "none" ]
  /\ nPath = << >>
  /\ nResult = << >>

\* no text has been handed to asMappedString
MapIdle ==
  /\ mPc = "idle"
  /\ mRoot = << >>
  /\ mText = [ value |-> << >>, map |-> << >> ]
  /\ mTrace = << >>
  /\ mDepth = 0

\* the editor has called neither getCompletions nor getLint
ToolsIdle ==
  /\ tPc = "idle"
  /\ tKind = "none"
  /\ tFiletype = "none"
  /\ tCells = << >>
  /\ tRow = 0
  /\ tColumn = 0
  /\ tFound = 0
  /\ tCalls = << >>
  /\ tResult = [ tag |-> "none" ]

\* bookPandocRenderer and cellLabelValidator have not been called
LateIdle ==
  /\ bPc = "idle"
  /\ bExecuted = << >>
  /\ bRendered = << >>
  /\ bCleaned = [ f \in BookFiles |-> 0 ]
  /\ bAccumulated = {}
  /\ bResult = [ tag |-> "none" ]
  /\ lLabels = << >>
  /\ lLog = << >>

\* validateDocumentFromSource has not been called
DocIdle ==
  /\ dPc = "idle"
  /\ dCell = 0
  /\ dResult = << >>
  /\ dLog = << >>

Init ==
  /\ host = "cli"
  /\ QueueIdle
  /\ AutoIdle
  /\ NavIdle
  /\ MapIdle
  /\ ToolsIdle
  /\ LateIdle
  /\ DocIdle
  /\ language \in Languages
  /\ doc = << >>
  /\ pc = "lines"
  /\ lineBuffer = << >>
  /\ cells = << >>
  /\ parsedFrontMatter = FALSE
  /\ inYaml = FALSE
  /\ inCodeCell = FALSE
  /\ inCode = FALSE

\* the loop takes the next line of lines(src)
NextLine(line) ==
  /\ pc = "lines"
  /\ Len(doc) < (IF dPc = "idle" THEN MaxLines ELSE MaxDocLines)
  /\ doc' = Append(doc, line)
  /\ pc' = "lines"
  /\ UNCHANGED << language, queueVars, auxVars >>

\* the yaml branch taken without looking at inCode
IsYamlBranchIgnoringInCode(line) == yamlRegEx(line) /\ ~inCodeCell

\* the first branch of the loop body is taken
IsYamlBranch(line) == yamlRegEx(line) /\ ~inCodeCell /\ ~inCode

\* a closing delimiter that flushes the buffer before it pushes the line
YamlEndFlushesFirst(line) ==
  /\ NextLine(line)
  /\ IsYamlBranch(line)
  /\ inYaml
  /\ cells' = FlushedCells(lineBuffer, RawCell)
  /\ lineBuffer' = << line >>
  /\ parsedFrontMatter' = TRUE
  /\ inYaml' = FALSE
  /\ UNCHANGED << inCodeCell, inCode >>

\* yaml front matter, closing delimiter
YamlEnd(line) ==
  /\ NextLine(line)
  /\ IsYamlBranch(line)
  /\ inYaml
  /\ flushLineBuffer(Append(lineBuffer, line), RawCell)
  /\ parsedFrontMatter' = TRUE
  /\ inYaml' = FALSE
  /\ UNCHANGED << inCodeCell, inCode >>

\* yaml front matter, opening delimiter
YamlBegin(line) ==
  /\ NextLine(line)
  /\ IsYamlBranch(line)
  /\ ~inYaml
  /\ cells' = FlushedCells(lineBuffer, MarkdownCell)
  /\ lineBuffer' = << line >>
  /\ inYaml' = TRUE
  /\ UNCHANGED << parsedFrontMatter, inCodeCell, inCode >>

\* begin code cell: an opening fence tagged with the language
BeginCodeCell(line) ==
  /\ NextLine(line)
  /\ ~IsYamlBranch(line)
  /\ startCodeCellRegEx(line)
  /\ flushLineBuffer(lineBuffer, MarkdownCell)
  /\ inCodeCell' = TRUE
  /\ UNCHANGED << parsedFrontMatter, inYaml, inCode >>

\* end code block, in a code cell: flush it
EndCodeCell(line) ==
  /\ NextLine(line)
  /\ ~IsYamlBranch(line)
  /\ ~startCodeCellRegEx(line)
  /\ endCodeRegEx(line)
  /\ inCodeCell
  /\ inCodeCell' = FALSE
  /\ flushLineBuffer(lineBuffer, CodeCell)
  /\ UNCHANGED << parsedFrontMatter, inYaml, inCode >>

\* end code block, not in a code cell: flips the state of in-code
ToggleCode(line) ==
  /\ NextLine(line)
  /\ ~IsYamlBranch(line)
  /\ ~startCodeCellRegEx(line)
  /\ endCodeRegEx(line)
  /\ ~inCodeCell
  /\ inCode' = ~inCode
  /\ lineBuffer' = Append(lineBuffer, line)
  /\ UNCHANGED << cells, parsedFrontMatter, inYaml, inCodeCell >>

\* begin code block: any other line that starts with a fence
BeginCode(line) ==
  /\ NextLine(line)
  /\ ~IsYamlBranch(line)
  /\ ~startCodeCellRegEx(line)
  /\ ~endCodeRegEx(line)
  /\ startCodeRegEx(line)
  /\ inCode' = TRUE
  /\ lineBuffer' = Append(lineBuffer, line)
  /\ UNCHANGED << cells, parsedFrontMatter, inYaml, inCodeCell >>

\* any other line
PushLine(line) ==
  /\ NextLine(line)
  /\ ~IsYamlBranch(line)
  /\ ~startCodeCellRegEx(line)
  /\ ~endCodeRegEx(line)
  /\ ~startCodeRegEx(line)
  /\ lineBuffer' = Append(lineBuffer, line)
  /\ UNCHANGED << cells, parsedFrontMatter, inYaml, inCodeCell, inCode >>

\* an end of input that flushes an open code cell as a code cell
EndOfInputByState ==
  /\ pc = "lines"
  /\ Len(doc) >= 1
  /\ flushLineBuffer(lineBuffer, IF inCodeCell THEN CodeCell ELSE MarkdownCell)
  /\ pc' = "done"
  /\ UNCHANGED << language, doc, parsedFrontMatter, inYaml, inCodeCell,
                  inCode, queueVars, auxVars >>

\* if there is still a line buffer then make it a markdown cell; return nb
EndOfInput ==
  /\ pc = "lines"
  /\ Len(doc) >= 1
  /\ flushLineBuffer(lineBuffer, MarkdownCell)
  /\ pc' = "done"
  /\ UNCHANGED << language, doc, parsedFrontMatter, inYaml, inCodeCell,
                  inCode, queueVars, auxVars >>

Next ==
  \/ \E line \in LinePool : YamlEnd(line)
  \/ \E line \in LinePool : YamlBegin(line)
  \/ \E line \in LinePool : BeginCodeCell(line)
  \/ \E line \in LinePool : EndCodeCell(line)
  \/ \E line \in LinePool : ToggleCode(line)
  \/ \E line \in LinePool : BeginCode(line)
  \/ \E line \in LinePool : PushLine(line)
  \/ EndOfInput

Spec == Init /\ [][Next]_vars

\* ------------------------------------------------------------------------
\* The validator queue and the requests that go through it
\* ------------------------------------------------------------------------

\* the errors the validator reports for attempt i of request r
ErrorsOfAttempt(r, i) ==
  IF reqAttempts[r][i] = "error" THEN { << r, i >> } ELSE {}

\* the first attempt of request r whose annotation is not null, 0 if none
FirstAnnotated(r) ==
  LET annotated == { i \in 1..Len(reqAttempts[r]) :
                       reqAttempts[r][i] # "null" }
  IN IF annotated = {} THEN 0 ELSE SetMin(annotated)

\* withValidator(schema, fn) is called: the call joins the queue of schema
Enqueue(r, s) ==
  validatorQueue' = [ validatorQueue EXCEPT ![s] = Append(@, r) ]

\* a slot handed to the newest call waiting for the schema
HoldsSlotNewestFirst(r) ==
  LET q == validatorQueue[reqSchema[r]]
  IN /\ reqPc[r] = "queued"
     /\ q # << >>
     /\ q[Len(q)] = r
     /\ \A i \in 1..Len(q) : reqPc[q[i]] = "queued"

\* one slot for the validators of all the schemas
HoldsSlotOfAllSchemas(r) ==
  /\ reqPc[r] = "queued"
  /\ validatorQueue[reqSchema[r]] # << >>
  /\ Head(validatorQueue[reqSchema[r]]) = r
  /\ \A q \in Requests : reqPc[q] \in { "idle", "queued", "done" }

\* the call of request r is the oldest one waiting for its schema
HoldsSlot(r) ==
  /\ reqPc[r] = "queued"
  /\ validatorQueue[reqSchema[r]] # << >>
  /\ Head(validatorQueue[reqSchema[r]]) = r

\* the validator of schema s is compiled and kept for the later calls
Compile(s) ==
  compiled' = [ compiled EXCEPT ![s] = @ + 1 ]

\* a call that compiles the validator as soon as it is made, before it has
\* the slot of its schema
StartCompileBeforeSlot(r) ==
  /\ reqPc[r] = "queued"
  /\ compiled[reqSchema[r]] = 0
  /\ reqPc' = [ reqPc EXCEPT ![r] = "compiling" ]
  /\ UNCHANGED << host, reqKind, reqSchema, reqAttempts, lints,
                  validatorQueue, compiled, validatorErrors, automationInit,
                  segVars, auxVars >>

\* the call has the slot of a schema that has no validator yet: it suspends
\* on the compilation of the validator
StartCompile(r) ==
  /\ HoldsSlot(r)
  /\ compiled[reqSchema[r]] = 0
  /\ reqPc' = [ reqPc EXCEPT ![r] = "compiling" ]
  /\ UNCHANGED << host, reqKind, reqSchema, reqAttempts, lints,
                  validatorQueue, compiled, validatorErrors, automationInit,
                  segVars, auxVars >>

\* the call of request r gets the validator of its schema: the one compiled
\* before, or the one whose compilation it waited for
GetValidator(r) ==
  /\ \/ HoldsSlot(r) /\ compiled[reqSchema[r]] > 0
     \/ reqPc[r] = "compiling"
  /\ IF reqPc[r] = "compiling"
       THEN Compile(reqSchema[r])
       ELSE UNCHANGED compiled

\* getLint once automationInit is set: initAutomation returns at once and
\* validationFromGoodParseYAML asks for the validator of the schema of the
\* request
CallLint(r, s, attempts) ==
  /\ host = "editor"
  /\ automationInit
  /\ reqPc[r] = "idle"
  /\ reqPc' = [ reqPc EXCEPT ![r] = "queued" ]
  /\ reqKind' = [ reqKind EXCEPT ![r] = "lint" ]
  /\ reqSchema' = [ reqSchema EXCEPT ![r] = s ]
  /\ reqAttempts' = [ reqAttempts EXCEPT ![r] = attempts ]
  /\ lints' = [ lints EXCEPT ![r] = {} ]
  /\ Enqueue(r, s)
  /\ UNCHANGED << host, compiled, validatorErrors, automationInit, segVars,
                  auxVars >>

\* validateDocumentFromSource: the request asks for the validator of the
\* front matter schema, with the annotation of its front matter
CallDocument(r, annotation) ==
  /\ host = "cli"
  /\ reqPc[r] = "idle"
  /\ reqPc' = [ reqPc EXCEPT ![r] = "queued" ]
  /\ reqKind' = [ reqKind EXCEPT ![r] = "document" ]
  /\ reqSchema' = [ reqSchema EXCEPT ![r] = "front-matter" ]
  /\ reqAttempts' = [ reqAttempts EXCEPT ![r] = << annotation >> ]
  /\ lints' = [ lints EXCEPT ![r] = {} ]
  /\ Enqueue(r, "front-matter")
  /\ UNCHANGED << host, compiled, validatorErrors, automationInit, segVars,
                  auxVars >>

\* getLint on a fresh process: initAutomation sets automationInit and
\* suspends on getSchemas()
BeginInit(r) ==
  /\ host = "editor"
  /\ reqPc[r] = "idle"
  /\ ~automationInit
  /\ automationInit' = TRUE
  /\ reqPc' = [ reqPc EXCEPT ![r] = "schemas" ]
  /\ reqKind' = [ reqKind EXCEPT ![r] = "init" ]
  /\ UNCHANGED << host, reqSchema, reqAttempts, lints, validatorQueue,
                  compiled, validatorErrors, segVars, auxVars >>

\* the place in SchemaDefs of the definition the loop of initAutomation
\* registers next
NextDef(r) ==
  IF reqPc[r] = "schemas" THEN 1
  ELSE 1 + CHOOSE i \in 1..Len(SchemaDefs) : SchemaDefs[i] = reqSchema[r]

\* initAutomation: the next schema definition is registered by a
\* withValidator call whose function does nothing
CallInit(r) ==
  /\ reqKind[r] = "init"
  /\ reqPc[r] \in { "schemas", "done" }
  /\ NextDef(r) <= Len(SchemaDefs)
  /\ reqPc' = [ reqPc EXCEPT ![r] = "queued" ]
  /\ reqSchema' = [ reqSchema EXCEPT ![r] = SchemaDefs[NextDef(r)] ]
  /\ Enqueue(r, SchemaDefs[NextDef(r)])
  /\ UNCHANGED << host, reqKind, reqAttempts, lints, compiled,
                  validatorErrors, automationInit, segVars, auxVars >>

\* initAutomation returns after the last definition; the request goes on
\* with getAutomation
InitDone(r) ==
  /\ reqKind[r] = "init"
  /\ reqPc[r] = "done"
  /\ NextDef(r) > Len(SchemaDefs)
  /\ reqPc' = [ reqPc EXCEPT ![r] = "idle" ]
  /\ reqKind' = [ reqKind EXCEPT ![r] = "none" ]
  /\ reqSchema' = [ reqSchema EXCEPT ![r] = "none" ]
  /\ UNCHANGED << host, reqAttempts, lints, validatorQueue, compiled,
                  validatorErrors, automationInit, segVars, auxVars >>

\* the function of an initAutomation call runs with the validator and
\* returns at once
AcquireInit(r) ==
  /\ GetValidator(r)
  /\ reqKind[r] = "init"
  /\ reqPc' = [ reqPc EXCEPT ![r] = "returned" ]
  /\ UNCHANGED << host, reqKind, reqSchema, reqAttempts, lints,
                  validatorQueue, validatorErrors, automationInit, segVars,
                  auxVars >>

\* the function of a lint request starts with the validator and suspends on
\* getTreeSitter()
AcquireLint(r) ==
  /\ GetValidator(r)
  /\ reqKind[r] = "lint"
  /\ reqPc' = [ reqPc EXCEPT ![r] = "fn" ]
  /\ UNCHANGED << host, reqKind, reqSchema, reqAttempts, lints,
                  validatorQueue, validatorErrors, automationInit, segVars,
                  auxVars >>

\* a resumption whose lints list is shared by all the requests
FnLintResumeSharedLints(r) ==
  LET s == reqSchema[r]
      i == FirstAnnotated(r)
      all == UNION { lints[q] : q \in Requests }
  IN /\ reqPc[r] = "fn"
     /\ reqKind[r] = "lint"
     /\ validatorErrors' =
          IF i = 0 THEN validatorErrors
          ELSE [ validatorErrors EXCEPT ![s] = ErrorsOfAttempt(r, i) ]
     /\ lints' = [ lints EXCEPT ![r] =
                     IF i = 0 THEN {} ELSE all \cup validatorErrors'[s] ]
     /\ reqPc' = [ reqPc EXCEPT ![r] = "returned" ]
     /\ UNCHANGED << host, reqKind, reqSchema, reqAttempts, validatorQueue,
                     compiled, automationInit, segVars, auxVars >>

\* the function of a lint request resumes: the first attempt with an
\* annotation is validated and its errors are returned as the lints; no
\* attempt with an annotation gives no lints
FnLintResume(r) ==
  LET s == reqSchema[r]
      i == FirstAnnotated(r)
  IN /\ reqPc[r] = "fn"
     /\ reqKind[r] = "lint"
     /\ validatorErrors' =
          IF i = 0 THEN validatorErrors
          ELSE [ validatorErrors EXCEPT ![s] = ErrorsOfAttempt(r, i) ]
     /\ lints' = [ lints EXCEPT ![r] =
                     IF i = 0 THEN {} ELSE validatorErrors'[s] ]
     /\ reqPc' = [ reqPc EXCEPT ![r] = "returned" ]
     /\ UNCHANGED << host, reqKind, reqSchema, reqAttempts, validatorQueue,
                     compiled, automationInit, segVars, auxVars >>

\* the function of a document request runs with the validator in one go: the
\* front matter is validated and its errors are pushed on the result
AcquireDocument(r) ==
  LET s == reqSchema[r]
  IN /\ GetValidator(r)
     /\ reqKind[r] = "document"
     /\ validatorErrors' =
          [ validatorErrors EXCEPT ![s] = ErrorsOfAttempt(r, 1) ]
     /\ lints' = [ lints EXCEPT ![r] = @ \cup validatorErrors'[s] ]
     /\ reqPc' = [ reqPc EXCEPT ![r] = "returned" ]
     /\ UNCHANGED << host, reqKind, reqSchema, reqAttempts, validatorQueue,
                     automationInit, segVars, auxVars >>

\* the function has returned: the call leaves the queue of its schema and
\* withValidator resolves
Release(r) ==
  /\ reqPc[r] = "returned"
  /\ validatorQueue' =
       [ validatorQueue EXCEPT ![reqSchema[r]] = Tail(@) ]
  /\ reqPc' = [ reqPc EXCEPT ![r] = "done" ]
  /\ UNCHANGED << host, reqKind, reqSchema, reqAttempts, lints, compiled,
                  validatorErrors, automationInit, segVars, auxVars >>

\* the caller has its answer; the request slot is free for a later request
Return(r) ==
  /\ reqPc[r] = "done"
  /\ reqKind[r] # "init"
  /\ reqPc' = [ reqPc EXCEPT ![r] = "idle" ]
  /\ reqKind' = [ reqKind EXCEPT ![r] = "none" ]
  /\ reqSchema' = [ reqSchema EXCEPT ![r] = "none" ]
  /\ reqAttempts' = [ reqAttempts EXCEPT ![r] = << >> ]
  /\ lints' = [ lints EXCEPT ![r] = {} ]
  /\ UNCHANGED << host, validatorQueue, compiled, validatorErrors,
                  automationInit, segVars, auxVars >>

\* breakQuartoMd has not been called
SegIdle ==
  /\ language = << "r" >>
  /\ doc = << >>
  /\ pc = "lines"
  /\ lineBuffer = << >>
  /\ cells = << >>
  /\ parsedFrontMatter = FALSE
  /\ inYaml = FALSE
  /\ inCodeCell = FALSE
  /\ inCode = FALSE

QueueInit ==
  /\ host \in { "editor", "cli" }
  /\ QueueIdle
  /\ SegIdle
  /\ AutoIdle
  /\ NavIdle
  /\ MapIdle
  /\ ToolsIdle
  /\ LateIdle
  /\ DocIdle

QueueNext ==
  \/ \E r \in Requests, s \in Schemas, attempts \in AttemptSequences :
       CallLint(r, s, attempts)
  \/ \E r \in Requests, annotation \in { "clean", "error" } :
       CallDocument(r, annotation)
  \/ \E r \in Requests : BeginInit(r)
  \/ \E r \in Requests : CallInit(r)
  \/ \E r \in Requests : InitDone(r)
  \/ \E r \in Requests : StartCompile(r)
  \/ \E r \in Requests : AcquireInit(r)
  \/ \E r \in Requests : AcquireLint(r)
  \/ \E r \in Requests : FnLintResume(r)
  \/ \E r \in Requests : AcquireDocument(r)
  \/ \E r \in Requests : Release(r)
  \/ \E r \in Requests : Return(r)

QueueSpec == QueueInit /\ [][QueueNext]_vars

\* ------------------------------------------------------------------------
\* completionsFromGoodParseYAML and validationFromGoodParseYAML over the
\* attempts of attemptParsesAtLine
\* ------------------------------------------------------------------------

\* line.slice(k) for k >= 0
SliceFrom(line, k) == SubSeq(line, k + 1, Len(line))

\* line.slice(0, e): a negative e counts from the end, and -0 is 0
SliceTo(line, e) ==
  LET n == Len(line)
      end == IF e < 0 THEN (IF n + e < 0 THEN 0 ELSE n + e)
             ELSE (IF e > n THEN n ELSE e)
  IN SubSeq(line, 1, end)

\* line.substring(0, e)
Substring(line, e) ==
  LET n == Len(line)
      end == IF e < 0 THEN 0 ELSE (IF e > n THEN n ELSE e)
  IN SubSeq(line, 1, end)

\* the token: "" after "-" or ":", else the last word after spaces
Word(line) ==
  IF line # << >> /\ line[Len(line)] \in { "-", ":" }
  THEN << >>
  ELSE LET spaces == { i \in 1..Len(line) : line[i] = " " }
       IN IF spaces = {} THEN line
          ELSE SubSeq(line, SetMax(spaces) + 1, Len(line))

\* completions() without the filter on the token
completionsOfAnyValue(avail, word) == avail

\* completions(): the completions of the schemas at the path that start with
\* the token
completions(avail, word) == { c \in avail : HasPrefix(c.value, word) }

\* a filter that keeps every completion whatever the line holds
FilterKeepsAll(cs, line) == cs

\* the completions kept for the cursor context of the line
FilterByLine(cs, line) ==
  IF \E i \in 1..Len(line) : line[i] = ":"
  THEN { c \in cs : c.type = "value" }
  ELSE IF ~\E i \in 1..Len(line) : line[i] = "-"
       THEN { c \in cs : c.type = "key" }
       ELSE cs

\* a column handed on as it came, without the deletions taken off
UncorrectedColumn(deletions) == aColumn

\* the cursor column against the text of an attempt
CorrectedColumn(deletions) == aColumn - deletions

\* an answer made of whatever the schema offers when no attempt is left
AnswerWithoutParse(kind) ==
  IF kind = "completions"
  THEN [ tag |-> "completions", token |-> Word(aLine),
         completions |-> CompletionPool, column |-> aColumn,
         line |-> aLine, pathFrom |-> "indentation", deletions |-> 0,
         path |-> << >>, indentPath |-> << >>, withError |-> FALSE ]
  ELSE [ tag |-> "lints", lints |-> { "error" } ]

\* what the functions return when the attempts are used up
NoParseResult(kind) ==
  IF kind = "completions"
  THEN [ tag |-> "false" ]
  ELSE [ tag |-> "lints", lints |-> {} ]

\* the deletions count of the attempt after the last one tried
NextDeletions ==
  IF aTried = << >> THEN 0 ELSE aTried[Len(aTried)].deletions + 1

\* an attempt that takes two more characters off than the last one
TruncatedByTwo(deletions) == SubSeq(aLine, 1, Len(aLine) - 2 * deletions)

\* the text of the attempt with the given deletions count: the line without
\* that many trailing characters
Truncated(deletions) == SubSeq(aLine, 1, Len(aLine) - deletions)

\* the request is a completion on a whitespace-only line
OnBlankLine == aKind = "completions" /\ TrimIsEmpty(aLine)

\* automationFromGoodParseYAML: the context comes as the editor gave it
CallYaml(kind, line) ==
  /\ aPc = "idle"
  /\ aPc' = "attempts"
  /\ aKind' = kind
  /\ aPrefix' = 0
  /\ aLine' = line
  /\ aColumn' = Len(line)
  /\ UNCHANGED << aTried, aResult, segVars, queueVars, pureVars >>

\* automationFromGoodParseScript: the comment prefix is taken off the line
\* and off the column
CallScript(kind, line) ==
  /\ aPc = "idle"
  /\ aPc' = "attempts"
  /\ aKind' = kind
  /\ aPrefix' = Len(kCommentPrefix)
  /\ aLine' = SliceFrom(line, Len(kCommentPrefix))
  /\ aColumn' = Len(line) - Len(kCommentPrefix)
  /\ UNCHANGED << aTried, aResult, segVars, queueVars, pureVars >>

\* completionsFromGoodParseYAML on a whitespace-only line: the path is
\* located from indentation, no parse is attempted, keys are kept
CompleteBlankLine(avail, indentPath) ==
  /\ aPc = "attempts"
  /\ OnBlankLine
  /\ aResult' =
       [ tag |-> "completions", token |-> Word(aLine),
         completions |->
           { c \in completions(avail, Word(aLine)) : c.type = "key" },
         column |-> aColumn, line |-> aLine, pathFrom |-> "indentation",
         deletions |-> 0, path |-> indentPath, indentPath |-> indentPath,
         withError |-> FALSE ]
  /\ aPc' = "done"
  /\ UNCHANGED << aKind, aPrefix, aLine, aColumn, aTried, segVars,
                  queueVars, pureVars >>

\* attemptParsesAtLine tries the next text: the line as given first, then
\* one trailing character less at each try; a text that parses is yielded
TryParse(parsed) ==
  /\ aPc = "attempts"
  /\ ~OnBlankLine
  /\ NextDeletions <= Len(aLine)
  /\ aTried' = Append(aTried, [ deletions |-> NextDeletions,
                                text |-> Truncated(NextDeletions),
                                parsed |-> parsed,
                                annotation |-> "none",
                                validated |-> FALSE,
                                errors |-> {} ])
  /\ aPc' = IF parsed THEN "yielded" ELSE "attempts"
  /\ UNCHANGED << aKind, aPrefix, aLine, aColumn, aResult, segVars,
                  queueVars, pureVars >>

\* the line is exhausted: the loop over the attempts ends and the function
\* returns its answer for no parse
NoMoreAttempts ==
  /\ aPc = "attempts"
  /\ ~OnBlankLine
  /\ NextDeletions > Len(aLine)
  /\ aResult' = NoParseResult(aKind)
  /\ aPc' = "done"
  /\ UNCHANGED << aKind, aPrefix, aLine, aColumn, aTried, segVars,
                  queueVars, pureVars >>

\* buildAnnotated has run on the last attempt; with an annotation,
\* validator.validateParse has run on it and reported the errors
Annotated(annotated, errors) ==
  [ aTried EXCEPT ![Len(aTried)] =
      [ @ EXCEPT !.annotation = IF annotated THEN "tree" ELSE "null",
                 !.validated = annotated,
                 !.errors = IF annotated THEN errors ELSE {} ] ]

\* a loop body that validates the attempt and goes on to the next one
ValidateEveryAttempt(annotated, errors) ==
  /\ aPc = "yielded"
  /\ aKind = "validation"
  /\ aTried' = Annotated(annotated, errors)
  /\ aResult' = [ tag |-> "lints", lints |-> errors ]
  /\ aPc' = IF annotated /\ errors # {} THEN "done" ELSE "attempts"
  /\ UNCHANGED << aKind, aPrefix, aLine, aColumn, segVars, queueVars,
                  pureVars >>

\* the loop body of validationFromGoodParseYAML: an attempt without an
\* annotation is skipped, one with an annotation is validated
ConsumeValidation(annotated, errors) ==
  /\ aPc = "yielded"
  /\ aKind = "validation"
  /\ aTried' = Annotated(annotated, errors)
  /\ IF annotated
       THEN /\ aResult' = [ tag |-> "lints", lints |-> errors ]
            /\ aPc' = "done"
       ELSE /\ aPc' = "attempts"
            /\ UNCHANGED aResult
  /\ UNCHANGED << aKind, aPrefix, aLine, aColumn, segVars, queueVars,
                  pureVars >>

\* completeEmptyLineOnIndentation
completeEmptyLineOnIndentation(deletions, avail, indentPath) ==
  [ tag |-> "completions", token |-> Word(aLine),
    completions |->
      { c \in completions(avail, Word(aLine)) : c.type = "key" },
    column |-> CorrectedColumn(deletions),
    line |-> SliceTo(aLine, 0 - deletions),
    pathFrom |-> "indentation", deletions |-> deletions,
    path |-> indentPath, indentPath |-> indentPath, withError |-> FALSE ]

\* path.pop() when the last segment of the path is the token
PopWord(path, word) ==
  IF path # << >> /\ path[Len(path)] = word
  THEN SubSeq(path, 1, Len(path) - 1)
  ELSE path

\* a path that stays the one of locateCursor when the location failed
PathOfCursor(locateFailed, cursorPath, indentPath) == cursorPath

\* the path after the location: the one of locateCursor, or the one
\* located from indentation when locateCursor reports withError
PathOf(locateFailed, cursorPath, indentPath) ==
  IF locateFailed THEN indentPath ELSE cursorPath

\* the loop body of completionsFromGoodParseYAML
ConsumeCompletion(annotated, located, avail, cursorPath, indentPath) ==
  LET attempt == aTried[Len(aTried)]
      deletions == attempt.deletions
      lineAfterDeletions == Substring(aLine, Len(aLine) - deletions)
  IN /\ aPc = "yielded"
     /\ aKind = "completions"
     /\ IF TrimIsEmpty(lineAfterDeletions)
          THEN /\ aResult' =
                    completeEmptyLineOnIndentation(deletions, avail,
                                                   indentPath)
               /\ aPc' = "done"
               /\ UNCHANGED aTried
          ELSE IF ~annotated
          THEN /\ aPc' = "attempts"
               /\ aTried' = Annotated(FALSE, {})
               /\ UNCHANGED aResult
          ELSE /\ aResult' =
                    [ tag |-> "completions", token |-> Word(aLine),
                      completions |->
                        FilterByLine(completions(avail, Word(aLine)), aLine),
                      column |-> CorrectedColumn(deletions),
                      line |-> IF located THEN attempt.text
                               ELSE lineAfterDeletions,
                      pathFrom |-> IF located THEN "cursor"
                                   ELSE "indentation",
                      deletions |-> deletions,
                      path |-> PopWord(PathOf(~located, cursorPath,
                                              indentPath), Word(aLine)),
                      indentPath |-> IF located THEN << >> ELSE indentPath,
                      withError |-> ~located ]
               /\ aTried' = [ aTried EXCEPT ![Len(aTried)].annotation =
                                "tree" ]
               /\ aPc' = "done"
     /\ UNCHANGED << aKind, aPrefix, aLine, aColumn, segVars, queueVars,
                     pureVars >>

\* the editor has its answer
AutomationReturn ==
  /\ aPc = "done"
  /\ aPc' = "idle"
  /\ aKind' = "none"
  /\ aPrefix' = 0
  /\ aLine' = << >>
  /\ aColumn' = 0
  /\ aTried' = << >>
  /\ aResult' = [ tag |-> "none" ]
  /\ UNCHANGED << segVars, queueVars, pureVars >>

AutomationInit ==
  /\ host = "editor"
  /\ QueueIdle
  /\ SegIdle
  /\ AutoIdle
  /\ NavIdle
  /\ MapIdle
  /\ ToolsIdle
  /\ LateIdle
  /\ DocIdle

AutomationNext ==
  \/ /\ aPc = "idle"
     /\ \E kind \in { "completions", "validation" }, line \in EditLines :
          CallYaml(kind, line)
  \/ /\ aPc = "idle"
     /\ \E kind \in { "completions", "validation" }, line \in ScriptLines :
          CallScript(kind, line)
  \/ \E avail \in SUBSET CompletionPool, indentPath \in LocatedPaths :
       CompleteBlankLine(avail, indentPath)
  \/ \E parsed \in BOOLEAN : TryParse(parsed)
  \/ NoMoreAttempts
  \/ \E annotated \in BOOLEAN, errors \in { {}, { "error" } } :
       ConsumeValidation(annotated, errors)
  \/ /\ aPc = "yielded"
     /\ \E annotated \in BOOLEAN, located \in BOOLEAN,
           avail \in SUBSET CompletionPool,
           cursorPath \in LocatedPaths, indentPath \in LocatedPaths :
          ConsumeCompletion(annotated, located, avail, cursorPath,
                            indentPath)
  \/ AutomationReturn

AutomationSpec == AutomationInit /\ [][AutomationNext]_vars

\* ------------------------------------------------------------------------
\* navigateSchema, as completions() calls it
\* ------------------------------------------------------------------------

\* the concatenation of the sequences of a sequence
RECURSIVE Flat(_)
Flat(seqs) == IF seqs = << >> THEN << >> ELSE Head(seqs) \o Flat(Tail(seqs))

\* a union that gives nothing as soon as one alternative gives nothing
anyOfAllOrNothing(results) ==
  IF \E i \in 1..Len(results) : results[i] = << >>
  THEN << >>
  ELSE Flat(results)

\* the result of a union: the results of its alternatives, in their order
anyOf(results) == Flat(results)

\* an end of path that does not stop at a union
pathEndsBelowUnions(schema, path) == path = << >> /\ schema.type # "anyOf"

\* the path is used up: the schema reached is the result
pathEnds(schema, path) == path = << >>

\* navigateSchema(schema, path)
RECURSIVE navigateSchema(_, _)
navigateSchema(schema, path) ==
  IF pathEnds(schema, path) THEN << schema >>
  ELSE IF schema.type = "object"
  THEN IF Head(path) \in DOMAIN schema.properties
       THEN navigateSchema(schema.properties[Head(path)], Tail(path))
       ELSE << >>
  ELSE IF schema.type = "array"
  THEN IF Head(path) \in Segments \ Keys
       THEN navigateSchema(schema.items, Tail(path))
       ELSE << >>
  ELSE IF schema.type = "anyOf"
  THEN anyOf([ i \in 1..Len(schema.anyOf) |->
                 navigateSchema(schema.anyOf[i], path) ])
  ELSE << >>

\* completions() is called with a schema and a path
NavCall(schema, path) ==
  /\ nPc = "idle"
  /\ nPc' = "called"
  /\ nSchema' = schema
  /\ nPath' = path
  /\ UNCHANGED << nResult, segVars, queueVars, otherVars, mapVars >>

\* const matchingSchemas = navigateSchema(schema, path)
Navigate ==
  /\ nPc = "called"
  /\ nPc' = "done"
  /\ nResult' = navigateSchema(nSchema, nPath)
  /\ UNCHANGED << nSchema, nPath, segVars, queueVars, otherVars, mapVars >>

\* completions() has returned
NavReturn ==
  /\ nPc = "done"
  /\ nPc' = "idle"
  /\ nSchema' = [ type |-> "none" ]
  /\ nPath' = << >>
  /\ nResult' = << >>
  /\ UNCHANGED << segVars, queueVars, otherVars, mapVars >>

NavInit ==
  /\ host = "editor"
  /\ QueueIdle
  /\ SegIdle
  /\ AutoIdle
  /\ NavIdle
  /\ MapIdle
  /\ ToolsIdle
  /\ LateIdle
  /\ DocIdle

NavNext ==
  \/ /\ nPc = "idle"
     /\ \E schema \in SchemaPool, path \in Paths : NavCall(schema, path)
  \/ Navigate
  \/ NavReturn

NavSpec == NavInit /\ [][NavNext]_vars

\* ------------------------------------------------------------------------
\* Mapped text: asMappedString, mappedString and the slices the callers make
\* ------------------------------------------------------------------------

\* the ranges { start, end } inside a text of length n that are no longer
\* than the longest text cut out by arbitrary ranges
Ranges(n) ==
  { r \in [ start : 0..n, end : 0..n ] :
      r.start <= r.end /\ r.end - r.start <= MaxTextLen }

\* asMappedString(text): the text mapped onto itself
asMappedString(text) ==
  [ value |-> text,
    map |-> IF text = << >> THEN << >>
            ELSE << [ start |-> 0, end |-> Len(text), src |-> 0 ] >> ]

\* the part of a map segment inside a range, if any: its place in the old
\* text and the root offset of its first character
Clip(seg, range) ==
  LET lo == IF seg.start > range.start THEN seg.start ELSE range.start
      hi == IF seg.end < range.end THEN seg.end ELSE range.end
  IN IF lo < hi
     THEN << [ start |-> lo, end |-> hi,
               src |-> seg.src + (lo - seg.start) ] >>
     ELSE << >>

\* the segments of the map of a text inside the ranges, range after range
Pieces(text, ranges) ==
  Flat([ i \in 1..Len(ranges) |->
           Flat([ j \in 1..Len(text.map) |->
                    Clip(text.map[j], ranges[i]) ]) ])

\* the total length of the first n segments
RECURSIVE LenUpTo(_, _)
LenUpTo(segs, n) ==
  IF n = 0 THEN 0
  ELSE LenUpTo(segs, n - 1) + (segs[n].end - segs[n].start)

\* segments that keep the places they had in the text they were cut from
KeepPlaces(segs) == segs

\* the segments laid end to end from offset 0 of the new text
Rebase(segs) ==
  [ i \in 1..Len(segs) |->
      [ start |-> LenUpTo(segs, i - 1), end |-> LenUpTo(segs, i),
        src |-> segs[i].src ] ]

\* the characters of a sequence in the ranges, range after range
Cut(seq, ranges) ==
  Flat([ i \in 1..Len(ranges) |->
           SubSeq(seq, ranges[i].start + 1, ranges[i].end) ])

\* a slice that forgets the map of the text it is cut from
mappedStringOfPlainText(text, ranges) ==
  [ value |-> Cut(text.value, ranges),
    map |-> Rebase(Pieces(asMappedString(text.value), ranges)) ]

\* mappedString(text, ranges): the concatenation of the ranges of the text,
\* every character still mapped to its offset in the root text
mappedString(text, ranges) ==
  [ value |-> Cut(text.value, ranges),
    map |-> Rebase(Pieces(text, ranges)) ]

\* the root offset of offset o of a mapped text
Locate(text, o) ==
  LET j == CHOOSE k \in 1..Len(text.map) :
             text.map[k].start <= o /\ o < text.map[k].end
  IN text.map[j].src + (o - text.map[j].start)

\* rangedLines(value): the range of every line, line terminators left out
rangedLines(value) ==
  LET nl == { i \in 1..Len(value) : value[i] = "\n" }
      starts == { 0 } \cup nl
      nth(n) == CHOOSE st \in starts :
                  Cardinality({ k \in starts : k < st }) = n - 1
      endOf(st) == LET later == { k \in nl : k > st }
                   IN IF later = {} THEN Len(value) ELSE SetMin(later) - 1
  IN [ n \in 1..(Cardinality(nl) + 1) |->
         [ start |-> nth(n), end |-> endOf(nth(n)) ] ]

\* code.value.lastIndexOf("---")
lastIndexOfDashes(value) ==
  SetMax({ i \in 0..(Len(value) - 3) :
             SubSeq(value, i + 1, i + 3) = Dashes })

\* code.value.trimEnd().endsWith("---")
EndsWithDashes(value) ==
  LET t == SkipTrailing(value, WhiteSpace)
  IN Len(t) >= 3 /\ SubSeq(t, Len(t) - 2, Len(t)) = Dashes

\* the ranges of the mappedString calls of trimTicks, in the order of the
\* calls
trimTicksRanges(value) ==
  LET first == IF HasPrefix(value, Dashes)
               THEN << << [ start |-> 3, end |-> Len(value) ] >> >>
               ELSE << >>
      v1 == IF first = << >> THEN value ELSE Cut(value, first[1])
      second == IF EndsWithDashes(v1)
                THEN << << [ start |-> 0,
                             end |-> lastIndexOfDashes(v1) ] >> >>
                ELSE << >>
  IN first \o second

\* the mapped text after the mappedString calls with the given range lists
RECURSIVE SliceAll(_, _)
SliceAll(text, calls) ==
  IF calls = << >> THEN text
  ELSE SliceAll(mappedString(text, Head(calls)), Tail(calls))

\* the root offsets of a text after the same calls, followed by hand: a
\* slice from start moves every offset by start
RECURSIVE TraceAll(_, _)
TraceAll(trace, calls) ==
  IF calls = << >> THEN trace
  ELSE TraceAll(Cut(trace, Head(calls)), Tail(calls))

\* the mapped text at hand is replaced by what the calls make of it
Sliced(calls) ==
  /\ mPc = "text"
  /\ mDepth + Len(calls) <= MaxSlices
  /\ mText' = SliceAll(mText, calls)
  /\ mTrace' = TraceAll(mTrace, calls)
  /\ mDepth' = mDepth + Len(calls)
  /\ UNCHANGED << mPc, mRoot, segVars, queueVars, otherVars, navVars >>

\* asMappedString(src), asMappedString(context.code)
AsMappedString(text) ==
  /\ mPc = "idle"
  /\ mPc' = "text"
  /\ mRoot' = text
  /\ mText' = asMappedString(text)
  /\ mTrace' = [ i \in 1..Len(text) |-> i - 1 ]
  /\ mDepth' = 0
  /\ UNCHANGED << segVars, queueVars, otherVars, navVars >>

\* the source of a cell: the lines first to last of the text, one range a
\* line, each with its line terminator but the last
SliceCell(first, last) ==
  LET lr == rangedLines(mText.value)
  IN /\ mPc = "text"
     /\ first <= last
     /\ last <= Len(lr)
     /\ Sliced(<< [ i \in 1..(last - first + 1) |->
                     [ start |-> lr[first + i - 1].start,
                       end |-> IF first + i - 1 < last
                               THEN lr[first + i - 1].end + 1
                               ELSE lr[first + i - 1].end ] ] >>)

\* the range of frontMatterText: from the start of the second line to the
\* end of the line before the last
FrontMatterRange(value) ==
  LET lineRanges == rangedLines(value)
  IN [ start |-> lineRanges[2].start,
       end |-> lineRanges[Len(lineRanges) - 1].end ]

\* the code of the context after trimTicks
trimTicksValue(value) ==
  SliceAll(asMappedString(value), trimTicksRanges(value)).value

\* validateDocumentFromSource: the text between the first and the last line
\* of a first cell that starts and ends with "---"; a cell of one line has
\* no lineRanges[1] and reading its range throws
SliceFrontMatter ==
  LET lineRanges == rangedLines(mText.value)
  IN /\ mPc = "text"
     /\ HasPrefix(mText.value, Dashes)
     /\ SubSeq(mText.value, Len(mText.value) - 2, Len(mText.value)) = Dashes
     /\ IF Len(lineRanges) < 2
          THEN /\ mPc' = "threw"
               /\ UNCHANGED << mRoot, mText, mTrace, mDepth, segVars,
                               queueVars, otherVars, navVars >>
          ELSE Sliced(<< << FrontMatterRange(mText.value) >> >>)

\* trimTicks: "---" is cut off the start and off the end of the code
TrimTicks ==
  /\ mPc = "text"
  /\ trimTicksRanges(mText.value) # << >>
  /\ Sliced(trimTicksRanges(mText.value))

\* codeLines[0] matches /.*{([a-z]+)}/
HasLanguageLine(value) ==
  LET lr == rangedLines(value)
  IN \E i \in (lr[1].start + 1)..lr[1].end :
       \E j \in (i + 2)..lr[1].end :
         /\ value[i] = "{"
         /\ value[j] = "}"
         /\ \A k \in (i + 1)..(j - 1) : value[k] \in { "a", "b", "r" }

\* automationFromGoodParseScript: the code from its first line, or from its
\* second line when the first one names the language
SliceScript(hasLanguage) ==
  LET codeLines == rangedLines(mText.value)
      codeStartLine == IF hasLanguage THEN 0 ELSE 1
  IN /\ mPc = "text"
     /\ ~hasLanguage => (Len(codeLines) >= 2 /\ HasLanguageLine(mText.value))
     /\ Sliced(<< << [ start |-> codeLines[codeStartLine + 1].start,
                       end |-> codeLines[Len(codeLines)].end ] >> >>)

\* mappedString with one or two ranges of the text, in any order
SliceAny(ranges) ==
  /\ mPc = "text"
  /\ Len(Cut(mText.value, ranges)) <= MaxTextLen
  /\ Sliced(<< ranges >>)

\* the request that made the mapped text is over
MapReturn ==
  /\ mPc \in { "text", "threw" }
  /\ mPc' = "idle"
  /\ mRoot' = << >>
  /\ mText' = [ value |-> << >>, map |-> << >> ]
  /\ mTrace' = << >>
  /\ mDepth' = 0
  /\ UNCHANGED << segVars, queueVars, otherVars, navVars >>

MapInit ==
  /\ host = "cli"
  /\ QueueIdle
  /\ SegIdle
  /\ AutoIdle
  /\ NavIdle
  /\ MapIdle
  /\ ToolsIdle
  /\ LateIdle
  /\ DocIdle

MapNext ==
  \/ /\ mPc = "idle"
     /\ \E text \in RootTexts : AsMappedString(text)
  \/ /\ mPc = "text"
     /\ \E first, last \in 1..Len(rangedLines(mText.value)) :
          SliceCell(first, last)
  \/ SliceFrontMatter
  \/ TrimTicks
  \/ \E hasLanguage \in BOOLEAN : SliceScript(hasLanguage)
  \/ /\ mPc = "text"
     /\ mDepth < MaxSlices
     /\ \E n \in 1..2 :
          \E ranges \in [ 1..n -> Ranges(Len(mText.value)) ] :
            SliceAny(ranges)
  \/ MapReturn

MapSpec == MapInit /\ [][MapNext]_vars

\* ------------------------------------------------------------------------
\* getCompletions and getLint on a markdown document: initAutomation,
\* getAutomation and the dispatch to the cells
\* ------------------------------------------------------------------------

\* the blocks of a document: a front matter, a line of prose, a blank
\* line, and code cells of one line, with or without an option line, in the
\* language r and in a language x
Blocks ==
  { [ cell_type |-> "raw", language |-> "none",
      lines |-> << "---", "a", "---" >> ],
    [ cell_type |-> "markdown", language |-> "none", lines |-> << "a" >> ],
    [ cell_type |-> "blank", language |-> "none", lines |-> << "" >> ],
    [ cell_type |-> "code", language |-> "r", lines |-> << "#| a" >> ],
    [ cell_type |-> "code", language |-> "r", lines |-> << "a" >> ],
    [ cell_type |-> "code", language |-> "x", lines |-> << "#| a" >> ] }

\* the documents: a front matter comes first; two blocks of prose, or two
\* blank lines, in a row, or prose around a blank line, would be one block
Layouts ==
  { l \in UNION { [ 1..n -> Blocks ] : n \in 1..MaxBlocks } :
      /\ \A i \in 2..Len(l) : l[i].cell_type # "raw"
      /\ \A i \in 1..(Len(l) - 1) :
           /\ l[i].cell_type \in { "markdown", "blank" } =>
                l[i + 1].cell_type # l[i].cell_type
           /\ l[i].cell_type = "markdown" =>
                l[i + 1].cell_type # "blank"
      /\ \E i \in 1..Len(l) : l[i].cell_type # "blank" }

\* the number of lines a block takes in the document: a code cell has its
\* two fence lines
BlockHeight(b) ==
  IF b.cell_type = "code" THEN Len(b.lines) + 2 ELSE Len(b.lines)

RECURSIVE Height(_)
\* the number of lines of a document
Height(layout) ==
  IF layout = << >> THEN 0
  ELSE BlockHeight(Head(layout)) + Height(Tail(layout))

\* the cursor columns
Columns == { 3, 4 }

\* the languages of schemas.languages
LanguagesWithSchema == { "r" }

RECURSIVE CellsFrom(_, _)
\* the cells of the blocks from document line n on: a blank block gives no
\* cell, and each cell records the document line of the first line of its
\* source, which for a code cell is the line after the opening fence
CellsFrom(layout, n) ==
  IF layout = << >> THEN << >>
  ELSE LET b == Head(layout)
           first == IF b.cell_type = "code" THEN n + 1 ELSE n
           rest == CellsFrom(Tail(layout), n + BlockHeight(b))
       IN IF b.cell_type = "blank" THEN rest
          ELSE << [ cell_type |-> b.cell_type, language |-> b.language,
                    lines |-> b.lines, cellStartLine |-> first ] >> \o rest

\* core.breakQuartoMd on the document
breakQuartoMd(layout) == CellsFrom(layout, 0)

\* adjustedCellSize
adjustedCellSize(cell) ==
  LET size == Len(cell.lines)
  IN IF cell.cell_type # "raw" /\ cell.cell_type # "markdown"
       THEN size + 2
       ELSE IF cell.lines[size] = "" THEN size - 1 ELSE size

\* the loop that finds foundCell: the place of the first cell that ends
\* after the row, 0 for undefined
FoundCell(cs, row) ==
  LET after == { i \in 1..Len(cs) :
                   adjustedCellSize(cs[i]) + cs[i].cellStartLine > row }
  IN IF after = {} THEN 0 ELSE SetMin(after)

\* the code of a yaml request as core.lines gives it: a front matter with
\* its delimiters, the same with a line terminator after the closing
\* delimiter, which makes a last line that is empty, and plain YAML
YamlCodes ==
  { << "---", "a", "---" >>, << "---", "a", "---", "" >>, << "a", "a" >> }

\* positionInTicks: the code starts with "---" and the row is 0, or the
\* code without its trailing whitespace ends with "---" and the row is the
\* last one of core.lines
positionInTicks(lines, row) ==
  LET text == { i \in 1..Len(lines) : lines[i] # "" }
  IN \/ lines[1] = "---" /\ row = 0
     \/ /\ text # {}
        /\ lines[SetMax(text)] = "---"
        /\ row = Len(lines) - 1

\* the yaml of core.partitionCellOptionsMapped is defined: the cell has an
\* option line
HasOptions(cell) == \E i \in 1..Len(cell.lines) : cell.lines[i] = "#| a"

\* the yaml of core.partitionCellOptionsMapped: the option lines without
\* the comment prefix
OptionsYaml(cell) ==
  LET opts == { i \in 1..Len(cell.lines) : cell.lines[i] = "#| a" }
  IN [ i \in 1..Cardinality(opts) |-> "a" ]

\* automationFromGoodParseScript on a cell of the document: false without
\* options, else the context of the YAML function, with the schema of the
\* language, the row from the start of the code and the column without the
\* comment prefix
ScriptCall(kind, cs, i, row, column) ==
  IF ~HasOptions(cs[i])
  THEN [ tag |-> "false" ]
  ELSE IF kind = "completions" /\ positionInTicks(OptionsYaml(cs[i]), row)
  THEN [ tag |-> "false" ]
  ELSE [ tag |-> "call", engine |-> "script", cell |-> i,
         schema |-> IF cs[i].language \in LanguagesWithSchema
                    THEN cs[i].language ELSE "undefined",
         row |-> row - 0,
         column |-> column - Len(kCommentPrefix) ]

\* the completions branch of automationFromGoodParseMarkdown
CompletionDispatch(cs, row, column) ==
  LET found == FoundCell(cs, row)
  IN IF found = 0 THEN [ tag |-> "false" ]
     ELSE IF cs[found].cell_type = "raw"
       THEN IF positionInTicks(cs[found].lines, row)
              THEN [ tag |-> "false" ]
              ELSE [ tag |-> "call", engine |-> "yaml", cell |-> found,
                     schema |-> "front-matter", row |-> row,
                     column |-> column ]
     ELSE IF cs[found].cell_type = "code"
       THEN ScriptCall("completions", cs, found,
                       row - cs[found].cellStartLine, column)
     ELSE IF cs[found].cell_type = "markdown"
       THEN [ tag |-> "false" ]
     ELSE [ tag |-> "throw" ]

RECURSIVE linesSoFar(_, _)
\* linesSoFar when the loop of the lint branch is at cell i
linesSoFar(cs, i) ==
  IF i = 1 THEN 0
  ELSE linesSoFar(cs, i - 1) + adjustedCellSize(cs[i - 1])

\* the row the lint branch hands to automationFromGoodParseScript for cell i
LintRow(cs, i, row) == row - (linesSoFar(cs, i) + 1)

RECURSIVE LintCalls(_, _, _, _)
\* the lint branch of automationFromGoodParseMarkdown from cell i on: the
\* contexts of the YAML function, cell by cell
LintCalls(cs, i, row, column) ==
  IF i > Len(cs) THEN << >>
  ELSE LET rest == LintCalls(cs, i + 1, row, column)
           call == ScriptCall("validation", cs, i,
                              LintRow(cs, i, row), column)
       IN IF cs[i].cell_type = "raw"
            THEN << [ tag |-> "call", engine |-> "yaml", cell |-> i,
                      schema |-> "front-matter", row |-> row,
                      column |-> column ] >> \o rest
          ELSE IF cs[i].cell_type = "code" /\ call.tag = "call"
            THEN << call >> \o rest
          ELSE rest

\* what the other variables of the process do while an entry point runs
ToolsUnchanged ==
  UNCHANGED << host, reqPc, reqKind, reqSchema, reqAttempts, lints,
               validatorQueue, compiled, validatorErrors, segVars, autoVars,
               navVars, mapVars, docVars, lateVars >>

\* getCompletions or getLint is called: the call waits for initAutomation
ToolsCall(kind, filetype, layout, row, column) ==
  /\ tPc = "idle"
  /\ tPc' = "init"
  /\ tKind' = kind
  /\ tFiletype' = filetype
  /\ tCells' = breakQuartoMd(layout)
  /\ tRow' = row
  /\ tColumn' = column
  /\ UNCHANGED << tFound, tCalls, tResult, automationInit >>
  /\ ToolsUnchanged

\* getCompletions or getLint is called on a yaml file or on the front
\* matter the visual editor sends: the code is the one block of the request
ToolsCallYaml(kind, code, row, column) ==
  /\ tPc = "idle"
  /\ tPc' = "init"
  /\ tKind' = kind
  /\ tFiletype' = "yaml"
  /\ tCells' = << [ cell_type |-> "raw", language |-> "none",
                    lines |-> code, cellStartLine |-> 0 ] >>
  /\ tRow' = row
  /\ tColumn' = column
  /\ UNCHANGED << tFound, tCalls, tResult, automationInit >>
  /\ ToolsUnchanged

\* initAutomation: it returns at once when automationInit is set; else it
\* sets automationInit and registers the schema definitions, and a
\* definition that withValidator rejects makes it throw into the catch of
\* the entry point, which answers null
InitAutomation(malformed) ==
  /\ tPc = "init"
  /\ automationInit' = TRUE
  /\ IF ~automationInit /\ malformed
       THEN /\ tResult' = [ tag |-> "null", from |-> "catch",
                            raised |-> TRUE ]
            /\ tPc' = "done"
       ELSE /\ tPc' = "automation"
            /\ UNCHANGED tResult
  /\ UNCHANGED << tKind, tFiletype, tCells, tRow, tColumn, tFound, tCalls >>
  /\ ToolsUnchanged

\* automationFromGoodParseYAML: no completions on a delimiter, else the
\* YAML function on the code
YamlDispatch(kind, code, row, column) ==
  IF kind = "completions" /\ positionInTicks(code, row)
  THEN [ tag |-> "false" ]
  ELSE [ tag |-> "call", engine |-> "yaml", cell |-> 1,
         schema |-> "context", row |-> row, column |-> column ]

\* getAutomation down to the YAML functions: automationFileTypeDispatch and
\* automationFromGoodParseMarkdown
GetAutomation ==
  LET dispatch == IF tFiletype = "yaml"
                  THEN YamlDispatch(tKind, tCells[1].lines, tRow, tColumn)
                  ELSE CompletionDispatch(tCells, tRow, tColumn)
      calls == IF tKind = "completions" \/ tFiletype = "yaml"
               THEN IF dispatch.tag = "call" THEN << dispatch >> ELSE << >>
               ELSE LintCalls(tCells, 1, tRow, tColumn)
  IN /\ tPc = "automation"
     /\ tFound' = IF tFiletype = "markdown" /\ tKind = "completions"
                  THEN FoundCell(tCells, tRow) ELSE 0
     /\ IF tFiletype \notin { "markdown", "yaml" }
          THEN /\ tResult' = [ tag |-> "null", from |-> "automation",
                               raised |-> FALSE ]
               /\ tPc' = "done"
               /\ UNCHANGED tCalls
          ELSE IF calls # << >>
          THEN /\ tCalls' = calls
               /\ tPc' = "engine"
               /\ UNCHANGED tResult
          ELSE /\ tResult' =
                    IF tKind = "validation"
                    THEN [ tag |-> "value", from |-> "automation",
                           raised |-> FALSE ]
                    ELSE IF dispatch.tag = "throw"
                    THEN [ tag |-> "rejected", from |-> "automation",
                           raised |-> TRUE ]
                    ELSE [ tag |-> "null", from |-> "automation",
                           raised |-> FALSE ]
               /\ tPc' = "done"
               /\ UNCHANGED tCalls
     /\ UNCHANGED << tKind, tFiletype, tCells, tRow, tColumn,
                     automationInit >>
     /\ ToolsUnchanged

\* the YAML functions have run: they gave a value, or false, which
\* getAutomation turns into null, or one of them raised an internal error,
\* which rejects the promise the entry point has returned
EngineReturns(outcome) ==
  /\ tPc = "engine"
  /\ outcome = "false" => tKind = "completions"
  /\ tResult' =
       IF outcome = "throws"
       THEN [ tag |-> "rejected", from |-> "automation", raised |-> TRUE ]
       ELSE IF outcome = "false"
       THEN [ tag |-> "null", from |-> "automation", raised |-> FALSE ]
       ELSE [ tag |-> "value", from |-> "automation", raised |-> FALSE ]
  /\ tPc' = "done"
  /\ UNCHANGED << tKind, tFiletype, tCells, tRow, tColumn, tFound, tCalls,
                  automationInit >>
  /\ ToolsUnchanged

\* the editor has its answer
ToolsReturn ==
  /\ tPc = "done"
  /\ tPc' = "idle"
  /\ tKind' = "none"
  /\ tFiletype' = "none"
  /\ tCells' = << >>
  /\ tRow' = 0
  /\ tColumn' = 0
  /\ tFound' = 0
  /\ tCalls' = << >>
  /\ tResult' = [ tag |-> "none" ]
  /\ UNCHANGED automationInit
  /\ ToolsUnchanged

ToolsInit ==
  /\ host = "editor"
  /\ QueueIdle
  /\ SegIdle
  /\ AutoIdle
  /\ NavIdle
  /\ MapIdle
  /\ ToolsIdle
  /\ LateIdle
  /\ DocIdle

ToolsNext ==
  \/ /\ tPc = "idle"
     /\ \E kind \in { "completions", "validation" },
           filetype \in { "markdown", "other" }, layout \in Layouts,
           column \in Columns :
          \E row \in 0..Height(layout) :
            ToolsCall(kind, filetype, layout, row, column)
  \/ /\ tPc = "idle"
     /\ \E kind \in { "completions", "validation" }, code \in YamlCodes,
           column \in Columns :
          \E row \in 0..(Len(code) - 1) :
            ToolsCallYaml(kind, code, row, column)
  \/ \E malformed \in BOOLEAN : InitAutomation(malformed)
  \/ GetAutomation
  \/ \E outcome \in { "value", "false", "throws" } : EngineReturns(outcome)
  \/ ToolsReturn

ToolsSpec == ToolsInit /\ [][ToolsNext]_vars

\* ------------------------------------------------------------------------
\* validateDocumentFromSource: the front matter and the code cells of a
\* document are validated, the document being cut by breakQuartoMd
\* ------------------------------------------------------------------------

\* the lines the validated documents are made of
DocLines ==
  { LineDashes, LineDashesWs, LineTextDashes, LineFence3, LineFence4,
    LineCellR3 }

\* the errors a validator can report for cell i
ErrorsOfCell(i) == << [ cell |-> i ] >>

\* firstCell.source.value.startsWith("---")
StartsWithDashes(cell) == HasPrefix(cell.source[1], Dashes)

\* firstCell.source.value.endsWith("---")
SourceEndsWithDashes(cell) ==
  LET last == cell.source[Len(cell.source)]
  IN /\ Len(last) >= 3
     /\ SubSeq(last, Len(last) - 2, Len(last)) = Dashes

\* languageOptionsSchema[lang] is defined
HasLanguageOptionsSchema(lang) == lang = << "r" >>

\* the cell is skipped by the loop over the cells
SkippedCell(cell) ==
  \/ cell.cell_type.tag # "code"
  \/ ~HasLanguageOptionsSchema(cell.cell_type.language)

\* the cells are there: no cell, a front matter that does not end, a front
\* matter of one line, a front matter handed to the validator, or none
DocStart(fmErrors) ==
  /\ pc = "done"
  /\ dPc = "lines"
  /\ IF cells = << >>
       THEN /\ fmErrors = << >>
            /\ dPc' = "returned"
            /\ UNCHANGED << dCell, dResult, dLog >>
       ELSE IF ~StartsWithDashes(cells[1])
         THEN /\ fmErrors = << >>
              /\ dPc' = "cells"
              /\ dCell' = 1
              /\ UNCHANGED << dResult, dLog >>
         ELSE IF ~SourceEndsWithDashes(cells[1]) \/ Len(cells[1].source) < 2
           THEN /\ fmErrors = << >>
                /\ dPc' = "threw"
                /\ UNCHANGED << dCell, dResult, dLog >>
           ELSE /\ dPc' = "cells"
                /\ dCell' = 2
                /\ dResult' = fmErrors
                /\ dLog' = << [ cell |-> 1, run |-> "front-matter",
                                outcome |-> IF fmErrors = << >>
                                              THEN "ok" ELSE "invalid" ] >>
  /\ UNCHANGED << segVars, queueVars, autoVars, navVars, mapVars, toolVars,
                  lateVars >>

\* a ValidationError of a cell ends the validation (not the program)
DocCellStopsAtValidationError(outcome) ==
  /\ dPc = "cells"
  /\ dCell <= Len(cells)
  /\ IF SkippedCell(cells[dCell])
       THEN /\ outcome = "ok"
            /\ dCell' = dCell + 1
            /\ UNCHANGED << dPc, dResult, dLog >>
       ELSE /\ dLog' = Append(dLog, [ cell |-> dCell, run |-> "cell",
                                      outcome |-> outcome ])
            /\ dResult' = IF outcome = "invalid"
                            THEN dResult \o ErrorsOfCell(dCell)
                            ELSE dResult
            /\ dPc' = IF outcome = "ok" THEN "cells" ELSE "threw"
            /\ dCell' = IF outcome = "ok" THEN dCell + 1 ELSE dCell
  /\ UNCHANGED << segVars, queueVars, autoVars, navVars, mapVars, toolVars,
                  lateVars >>

\* one turn of the loop over the cells: the cell is skipped, or its options
\* are validated and a ValidationError is pushed, any other error thrown
DocCell(outcome) ==
  /\ dPc = "cells"
  /\ dCell <= Len(cells)
  /\ IF SkippedCell(cells[dCell])
       THEN /\ outcome = "ok"
            /\ dCell' = dCell + 1
            /\ UNCHANGED << dPc, dResult, dLog >>
       ELSE /\ dLog' = Append(dLog, [ cell |-> dCell, run |-> "cell",
                                      outcome |-> outcome ])
            /\ dResult' = IF outcome = "invalid"
                            THEN dResult \o ErrorsOfCell(dCell)
                            ELSE dResult
            /\ dPc' = IF outcome = "throws" THEN "threw" ELSE "cells"
            /\ dCell' = IF outcome = "throws" THEN dCell ELSE dCell + 1
  /\ UNCHANGED << segVars, queueVars, autoVars, navVars, mapVars, toolVars,
                  lateVars >>

\* return result
DocReturn ==
  /\ dPc = "cells"
  /\ dCell > Len(cells)
  /\ dPc' = "returned"
  /\ UNCHANGED << dCell, dResult, dLog >>
  /\ UNCHANGED << segVars, queueVars, autoVars, navVars, mapVars, toolVars,
                  lateVars >>

DocInit ==
  /\ host = "cli"
  /\ QueueIdle
  /\ SegIdle
  /\ AutoIdle
  /\ NavIdle
  /\ MapIdle
  /\ ToolsIdle
  /\ LateIdle
  /\ dPc = "lines"
  /\ dCell = 0
  /\ dResult = << >>
  /\ dLog = << >>

DocNext ==
  \/ \E line \in DocLines : YamlEnd(line)
  \/ \E line \in DocLines : YamlBegin(line)
  \/ \E line \in DocLines : BeginCodeCell(line)
  \/ \E line \in DocLines : EndCodeCell(line)
  \/ \E line \in DocLines : ToggleCode(line)
  \/ \E line \in DocLines : BeginCode(line)
  \/ \E line \in DocLines : PushLine(line)
  \/ EndOfInput
  \/ \E fmErrors \in { << >>, ErrorsOfCell(1) } : DocStart(fmErrors)
  \/ \E outcome \in { "ok", "invalid", "throws" } : DocCell(outcome)
  \/ DocReturn

DocumentSpec == DocInit /\ [][DocNext]_vars

\* ------------------------------------------------------------------------
\* bookPandocRenderer: onRender, onComplete and renderSingleFileBook
\* ------------------------------------------------------------------------

\* isMultiFileBookFormat
isMultiFileBookFormat(format) == format = "html"

\* the files of executedFiles, all formats together
ExecutedNow(executed) ==
  UNION { { executed[i].files[k] : k \in 1..Len(executed[i].files) } :
            i \in 1..Len(executed) }

\* the counts after cleanupExecutedFile has run on each of the files
CleanedUp(counts, files) ==
  [ f \in BookFiles |-> IF f \in files THEN counts[f] + 1 ELSE counts[f] ]

\* cleanupExecutedFiles: every file still in executedFiles is cleaned up
cleanupExecutedFiles(counts, executed) ==
  CleanedUp(counts, ExecutedNow(executed))

\* executedFiles[format] = executedFiles[format] || []; then the push
PushExecuted(executed, format, file) ==
  IF \E i \in 1..Len(executed) : executed[i].format = format
  THEN [ i \in 1..Len(executed) |->
           IF executed[i].format = format
           THEN [ executed[i] EXCEPT !.files = Append(@, file) ]
           ELSE executed[i] ]
  ELSE Append(executed, [ format |-> format, files |-> << file >> ])

\* onRender: a file of a multi-file format is rendered at once, a file of
\* a single-file format is kept in executedFiles
OnRender(format, file) ==
  /\ bPc = "open"
  /\ file \notin bAccumulated
  /\ \A k \in 1..Len(bRendered) : bRendered[k].file # file
  /\ IF isMultiFileBookFormat(format)
       THEN /\ bRendered' = Append(bRendered,
                                   [ file |-> file, format |-> format ])
            /\ UNCHANGED << bExecuted, bAccumulated >>
       ELSE /\ bExecuted' = PushExecuted(bExecuted, format, file)
            /\ bAccumulated' = bAccumulated \cup { file }
            /\ UNCHANGED bRendered
  /\ UNCHANGED << bPc, bCleaned, bResult >>
  /\ UNCHANGED << segVars, queueVars, autoVars, navVars, mapVars, toolVars,
                  docVars, labelVars >>

\* onComplete: with error, the executed files are cleaned up and the
\* rendered files are returned; without, the loop over the formats starts
OnComplete(error) ==
  /\ bPc = "open"
  /\ IF error
       THEN /\ bCleaned' = cleanupExecutedFiles(bCleaned, bExecuted)
            /\ bResult' = [ tag |-> "returned", onError |-> TRUE,
                            files |-> bRendered, error |-> FALSE ]
            /\ bPc' = "returned"
       ELSE /\ bPc' = "completing"
            /\ UNCHANGED << bCleaned, bResult >>
  /\ UNCHANGED << bExecuted, bRendered, bAccumulated >>
  /\ UNCHANGED << segVars, queueVars, autoVars, navVars, mapVars, toolVars,
                  docVars, labelVars >>

\* one turn of the loop of onComplete: renderSingleFileBook renders the
\* files of the format and cleans up each of them, and the format is
\* deleted from executedFiles; or it throws before its cleanup step (in
\* mergeExecutedFiles or renderPandoc) or after it (in
\* onSingleFileBookRendered), and the catch cleans up what executedFiles
\* still holds
RenderSingleFileBook(outcome) ==
  LET files == { bExecuted[1].files[k] : k \in 1..Len(bExecuted[1].files) }
      byRender == IF outcome = "throws-before-cleanup"
                  THEN bCleaned ELSE CleanedUp(bCleaned, files)
  IN /\ bPc = "completing"
     /\ bExecuted # << >>
     /\ IF outcome = "rendered"
          THEN /\ bCleaned' = byRender
               /\ bRendered' = Append(bRendered,
                                      [ file |-> "book",
                                        format |-> bExecuted[1].format ])
               /\ bExecuted' = Tail(bExecuted)
               /\ UNCHANGED << bPc, bResult >>
          ELSE /\ bCleaned' = cleanupExecutedFiles(byRender, bExecuted)
               /\ bResult' = [ tag |-> "returned", onError |-> FALSE,
                               files |-> bRendered, error |-> TRUE ]
               /\ bPc' = "returned"
               /\ UNCHANGED << bExecuted, bRendered >>
     /\ UNCHANGED bAccumulated
     /\ UNCHANGED << segVars, queueVars, autoVars, navVars, mapVars,
                     toolVars, docVars, labelVars >>

\* the loop of onComplete is over: the rendered files are returned
OnCompleteReturn ==
  /\ bPc = "completing"
  /\ bExecuted = << >>
  /\ bResult' = [ tag |-> "returned", onError |-> FALSE,
                  files |-> bRendered, error |-> FALSE ]
  /\ bPc' = "returned"
  /\ UNCHANGED << bExecuted, bRendered, bCleaned, bAccumulated >>
  /\ UNCHANGED << segVars, queueVars, autoVars, navVars, mapVars, toolVars,
                  docVars, labelVars >>

BookInit ==
  /\ host = "cli"
  /\ QueueIdle
  /\ SegIdle
  /\ AutoIdle
  /\ NavIdle
  /\ MapIdle
  /\ ToolsIdle
  /\ DocIdle
  /\ bPc = "open"
  /\ bExecuted = << >>
  /\ bRendered = << >>
  /\ bCleaned = [ f \in BookFiles |-> 0 ]
  /\ bAccumulated = {}
  /\ bResult = [ tag |-> "none" ]
  /\ lLabels = << >>
  /\ lLog = << >>

BookNext ==
  \/ \E format \in BookFormats, file \in BookFiles : OnRender(format, file)
  \/ \E error \in BOOLEAN : OnComplete(error)
  \/ \E outcome \in { "rendered", "throws-before-cleanup",
                      "throws-after-cleanup" } :
       RenderSingleFileBook(outcome)
  \/ OnCompleteReturn

BookSpec == BookInit /\ [][BookNext]_vars

\* ------------------------------------------------------------------------
\* cellLabel and cellLabelValidator
\* ------------------------------------------------------------------------

\* asHtmlId: a character that cannot be in an id becomes "-"
asHtmlId(text) ==
  [ i \in 1..Len(text) |-> IF text[i] = " " THEN "-" ELSE text[i] ]

\* cellLabel: the label option, else the name of the metadata, as an id
\* with "#" in front of it; "" when there is neither
cellLabel(cell) ==
  LET label == asHtmlId(IF cell.label # << >> THEN cell.label
                        ELSE cell.name)
  IN IF label # << >> /\ label[1] # "#" THEN << "#" >> \o label ELSE label

\* cellLabelValidator(): a validator with a set of labels of its own
cellLabelValidator ==
  /\ Len(lLabels) < MaxValidators
  /\ lLabels' = Append(lLabels, {})
  /\ UNCHANGED lLog
  /\ UNCHANGED << segVars, queueVars, autoVars, navVars, mapVars, toolVars,
                  docVars, bookVars >>

\* a validator that looks for the label in the sets of all the validators
ValidateCellAmongAll(v, cell) ==
  LET label == cellLabel(cell)
      raises == label # << >> /\ \E w \in 1..Len(lLabels) : label \in lLabels[w]
  IN /\ v \in 1..Len(lLabels)
     /\ Len(lLog) < MaxCalls
     /\ lLabels' = IF label # << >> /\ ~raises
                   THEN [ lLabels EXCEPT ![v] = @ \cup { label } ]
                   ELSE lLabels
     /\ lLog' = Append(lLog, [ validator |-> v, cell |-> cell,
                               raised |-> raises ])
     /\ UNCHANGED << segVars, queueVars, autoVars, navVars, mapVars,
                     toolVars, docVars, bookVars >>

\* the function cellLabelValidator returned is called on a cell: it throws
\* on a label it has, and keeps a label it has not
ValidateCell(v, cell) ==
  LET label == cellLabel(cell)
      raises == label # << >> /\ label \in lLabels[v]
  IN /\ v \in 1..Len(lLabels)
     /\ Len(lLog) < MaxCalls
     /\ lLabels' = IF label # << >> /\ ~raises
                   THEN [ lLabels EXCEPT ![v] = @ \cup { label } ]
                   ELSE lLabels
     /\ lLog' = Append(lLog, [ validator |-> v, cell |-> cell,
                               raised |-> raises ])
     /\ UNCHANGED << segVars, queueVars, autoVars, navVars, mapVars,
                     toolVars, docVars, bookVars >>

LabelInit ==
  /\ host = "cli"
  /\ QueueIdle
  /\ SegIdle
  /\ AutoIdle
  /\ NavIdle
  /\ MapIdle
  /\ ToolsIdle
  /\ LateIdle
  /\ DocIdle

LabelNext ==
  \/ cellLabelValidator
  \/ \E v \in 1..MaxValidators, cell \in LabelCells : ValidateCell(v, cell)

LabelSpec == LabelInit /\ [][LabelNext]_vars

\* ------------------------------------------------------------------------
\* Vocabulary of the properties
\* ------------------------------------------------------------------------

\* a source line of a cell without the "\n" the flush appended to it
StripNl(l) ==
  IF l # << >> /\ l[Len(l)] = "\n" THEN SubSeq(l, 1, Len(l) - 1) ELSE l

\* the lines of the document a cell is made of
CellLines(cell) == [ i \in 1..Len(cell.source) |-> StripNl(cell.source[i]) ]

RECURSIVE ConcatSources(_)
\* the lines of the cells cs, in order
ConcatSources(cs) ==
  IF cs = << >> THEN << >> ELSE CellLines(Head(cs)) \o ConcatSources(Tail(cs))

IsBlankLine(l) == \A i \in 1..Len(l) : l[i] = " "

AllBlank(buf) == \A i \in 1..Len(buf) : IsBlankLine(buf[i])

\* the lines of the pool that open a cell of the target language
TargetOpeners == { LineCellR3, LineCellR4, LineCellROpts }

\* the bare fences of the pool: three or more backticks and nothing else
BareFences == { LineFence3, LineFence4 }

\* the delimiter lines of the pool, matching ^---\s*$
YamlDelimiters == { LineDashes, LineDashesWs }

\* a fence line of a target-language cell
IsCellFence(l) == l \in TargetOpeners \/ l \in BareFences

RECURSIVE Rebuilds(_, _, _)
\* out is src without some of its lines, every line left out being blank
\* or, when fences is TRUE, a fence line of a target-language cell
Rebuilds(out, src, fences) ==
  IF src = << >>
    THEN out = << >>
    ELSE \/ /\ out # << >>
            /\ Head(out) = Head(src)
            /\ Rebuilds(Tail(out), Tail(src), fences)
         \/ /\ IsBlankLine(Head(src)) \/ (fences /\ IsCellFence(Head(src)))
            /\ Rebuilds(out, Tail(src), fences)

\* this step read a line of the document
LineRead == pc = "lines" /\ pc' = "lines" /\ Len(doc') = Len(doc) + 1

\* the line this step read
LastLine == doc'[Len(doc')]

\* this step flushed buffer buf as a cell of type tag: the cell list grows
\* by the one cell made of buf from its first to its last non-blank line, or
\* stays as it is when buf has no such line
FlushedAs(buf, tag) ==
  LET kept == { i \in 1..Len(buf) : ~IsBlankLine(buf[i]) }
  IN IF kept = {}
       THEN cells' = cells
       ELSE /\ Len(cells') = Len(cells) + 1
            /\ SubSeq(cells', 1, Len(cells)) = cells
            /\ cells'[Len(cells')].cell_type.tag = tag
            /\ CellLines(cells'[Len(cells')]) =
                 SubSeq(buf, SetMin(kept), SetMax(kept))

\* ------------------------------------------------------------------------
\* Properties of breakQuartoMd
\* ------------------------------------------------------------------------

C2_YamlDelimiter ==
  [][ (LineRead /\ LastLine \in YamlDelimiters) =>
        IF ~inCodeCell /\ ~inCode
          THEN IF ~inYaml
                 THEN /\ FlushedAs(lineBuffer, "markdown")
                      /\ lineBuffer' = << LastLine >>
                      /\ inYaml'
                 ELSE /\ FlushedAs(Append(lineBuffer, LastLine), "raw")
                      /\ lineBuffer' = << >>
                      /\ ~inYaml'
          ELSE /\ inYaml' = inYaml
               /\ cells' = cells ]_vars

\* C2 witness: a front-matter cell was flushed at a closing delimiter, and
\* a later delimiter line sits in the buffer of an opaque fenced block
C2_Witness ==
  /\ pc = "lines"
  /\ cells # << >>
  /\ cells[1].cell_type = RawCell
  /\ inCode
  /\ ~inYaml
  /\ lineBuffer # << >>
  /\ lineBuffer[Len(lineBuffer)] \in YamlDelimiters

\* C3: in whatever state it is read, an opening fence tagged with the target
\* language flushes the buffer as a prose cell and puts the segmenter in the
\* fenced-code state of that language.
C3_TargetFenceOpens ==
  [][ (LineRead /\ LastLine \in TargetOpeners) =>
        /\ FlushedAs(lineBuffer, "markdown")
        /\ lineBuffer' = << >>
        /\ inCodeCell' ]_vars

\* C3 witness: an opening fence of more than three backticks was read with
\* prose in the buffer
C3_Witness ==
  /\ pc = "lines"
  /\ inCodeCell
  /\ doc # << >>
  /\ doc[Len(doc)] = LineCellR4
  /\ language = << "r" >>
  /\ cells # << >>
  /\ cells[Len(cells)].cell_type = MarkdownCell
  /\ lineBuffer = << >>

\* C4: a bare fence of three or more backticks read in the target-language
\* fenced state flushes the buffer as a code cell of the target language and
\* leaves that state; read in any other state it toggles the opaque-block
\* flag and is appended to the buffer.
C4_BareFenceCloses ==
  [][ (LineRead /\ LastLine \in BareFences) =>
        IF inCodeCell
          THEN /\ FlushedAs(lineBuffer, "code")
               /\ lineBuffer' = << >>
               /\ ~inCodeCell'
          ELSE /\ inCode' = ~inCode
               /\ lineBuffer' = Append(lineBuffer, LastLine)
               /\ cells' = cells ]_vars

\* C5: the end of the input flushes what is buffered as a prose cell in
\* whatever state the segmenter is, so that a non-blank unflushed tail is the
\* last cell returned and is a prose cell.
C5_EndOfInputFlushesProse ==
  [][ (pc = "lines" /\ pc' = "done") =>
        /\ FlushedAs(lineBuffer, "markdown")
        /\ lineBuffer' = << >>
        /\ (~AllBlank(lineBuffer) =>
              cells'[Len(cells')].cell_type = MarkdownCell) ]_vars

\* C5 witness: the input ended inside an open target-language block whose
\* last line is text, and the last cell returned is a prose cell
C5_Witness ==
  /\ pc = "done"
  /\ inCodeCell
  /\ doc[Len(doc)] = LineText
  /\ cells # << >>
  /\ cells[Len(cells)].cell_type = MarkdownCell

\* the buffer a step flushes, when it is a step that flushes
FlushedBuffer ==
  IF LineRead /\ LastLine \in YamlDelimiters /\ ~inCodeCell /\ ~inCode /\ inYaml
    THEN Append(lineBuffer, LastLine)
    ELSE lineBuffer

\* this step did not push the line it read on the buffer as it was
IsFlushStep ==
  \/ pc' = "done"
  \/ LineRead /\ lineBuffer' # Append(lineBuffer, LastLine)

\* C6: every cell has at least one source line and neither its first nor its
\* last source line is blank; a flush of a buffer of blank lines emits no
\* cell and leaves the buffer empty.
C6_CellsTrimmed ==
  /\ [](\A i \in 1..Len(cells) :
          /\ Len(cells[i].source) >= 1
          /\ ~IsBlankLine(StripNl(cells[i].source[1]))
          /\ ~IsBlankLine(StripNl(cells[i].source[Len(cells[i].source)])))
  /\ [][ (IsFlushStep /\ AllBlank(FlushedBuffer)) =>
           /\ cells' = cells
           /\ (lineBuffer' = << >> \/ lineBuffer' = << LastLine >>) ]_vars

\* C6 witness: a cell was emitted from a buffer that began and ended with
\* blank lines, and a later buffer of blank lines was flushed into no cell
C6_Witness ==
  /\ pc = "done"
  /\ Len(doc) >= 4
  /\ IsBlankLine(doc[1])
  /\ doc[2] = LineText
  /\ doc[3] \in TargetOpeners
  /\ IsBlankLine(doc[4])
  /\ Len(cells) = 1

\* the number a cell records for its first line, when it records one
HasStartLine(cell) == "cellStartLine" \in DOMAIN cell

\* C7: the cells are in document order and every cell records the number of
\* its first line: the line of the document at that number is the first line
\* of the cell, and the numbers increase strictly along the cell list.
C7_CellsRecordStartLine ==
  \A i \in 1..Len(cells) :
    /\ HasStartLine(cells[i])
    /\ doc[cells[i].cellStartLine + 1] = StripNl(cells[i].source[1])
    /\ (i > 1 => cells[i - 1].cellStartLine < cells[i].cellStartLine)

\* C8: of the flags inYaml, inCodeCell and inCode no two are true at the same
\* time.
C8_OneStateAtATime ==
  /\ ~(inYaml /\ inCodeCell)
  /\ ~(inYaml /\ inCode)
  /\ ~(inCodeCell /\ inCode)

\* the document is a front-matter block closed at line k followed by prose
IsFrontMatterThenProse(k) ==
  /\ k \in 2..(Len(doc) - 1)
  /\ doc[1] \in YamlDelimiters
  /\ doc[k] \in YamlDelimiters
  /\ \A i \in 2..(k - 1) : doc[i] \notin YamlDelimiters
  /\ \A i \in 1..Len(doc) : doc[i] \notin (TargetOpeners \cup BareFences)
  /\ \A i \in 1..Len(doc) :
       ~(Len(doc[i]) >= 3 /\ SubSeq(doc[i], 1, 3) = << Tick, Tick, Tick >>)
  /\ \A i \in (k + 1)..Len(doc) :
       doc[i] \notin YamlDelimiters /\ ~IsBlankLine(doc[i])

\* C9: a document that opens with a delimiter line, has a closing delimiter
\* line and goes on with non-blank prose lines, with no fence line, yields
\* exactly two cells: the front-matter cell from the opening to the closing
\* delimiter inclusive, then the prose cell made of the prose lines.
C9_FrontMatterThenProse ==
  \A k \in 1..Len(doc) :
    (pc = "done" /\ IsFrontMatterThenProse(k)) =>
      /\ Len(cells) = 2
      /\ cells[1].cell_type = RawCell
      /\ CellLines(cells[1]) = SubSeq(doc, 1, k)
      /\ cells[2].cell_type = MarkdownCell
      /\ CellLines(cells[2]) = SubSeq(doc, k + 1, Len(doc))

\* C9 witness: a returned document of a delimiter, a line of YAML, a
\* delimiter and a line of prose
C9_Witness ==
  /\ pc = "done"
  /\ Len(doc) = 4
  /\ IsFrontMatterThenProse(3)
  /\ doc[2] = LineText
  /\ Len(cells) = 2

\* ------------------------------------------------------------------------
\* Properties of the validator queue
\* ------------------------------------------------------------------------

\* request r holds the validator of its schema
HoldsValidator(r) == reqPc[r] \in { "fn", "returned" }

\* the errors of the attempts of request r
OwnErrors(r) == { << r, i >> : i \in 1..Len(reqAttempts[r]) }

\* C10: of the withValidator calls on one schema at most one holds the
\* compiled validator at a time; while the function of a call is suspended
\* the state of its validator is not touched by another call; and the list
\* returned to a call holds errors of its own validation only.
C10_ValidatorMutualExclusion ==
  /\ [](\A r1, r2 \in Requests :
          (r1 # r2 /\ HoldsValidator(r1) /\ HoldsValidator(r2)) =>
            reqSchema[r1] # reqSchema[r2])
  /\ [](\A r \in Requests :
          reqPc[r] \in { "returned", "done" } => lints[r] \subseteq OwnErrors(r))
  /\ [][ \A r \in Requests :
           (reqPc[r] = "fn" /\ reqPc'[r] = "fn") =>
             validatorErrors'[reqSchema[r]] = validatorErrors[reqSchema[r]]
       ]_vars

\* C10 witness: a call was answered with an error of its own while a second
\* call on the same schema, which left an error of its own in the validator,
\* has returned from its function
C10_Witness ==
  \E r1, r2 \in Requests :
    /\ r1 # r2
    /\ reqSchema[r1] = reqSchema[r2]
    /\ reqPc[r1] = "done"
    /\ lints[r1] # {}
    /\ reqPc[r2] = "returned"
    /\ lints[r2] # {}
    /\ validatorErrors[reqSchema[r2]] = lints[r2]


\* ------------------------------------------------------------------------
\* C11 .. C13: the validator queue
\* ------------------------------------------------------------------------

\* the function handed to withValidator by request r has started
FnStarted(r) == reqPc[r] \in { "fn", "returned" }

\* request r is in the queue of schema s
InQueue(r, s) == \E i \in 1..Len(validatorQueue[s]) : validatorQueue[s][i] = r

\* request a asked for the validator of schema s before request b did, and
\* neither call has resolved
AskedBefore(a, b, s) ==
  \E i, j \in 1..Len(validatorQueue[s]) :
    /\ i < j
    /\ validatorQueue[s][i] = a
    /\ validatorQueue[s][j] = b

\* C11: concurrent withValidator requests on one schema are served in the
\* order they asked: while request a, which asked before request b, has not
\* resolved, the function of b has not started; the function of b starts
\* only when b is the oldest call of the schema; and a call leaves the queue
\* only after its function has returned.
C11_FifoOrder ==
  /\ [](\A s \in Schemas : \A a, b \in Requests :
          AskedBefore(a, b, s) => ~FnStarted(b))
  /\ [][\A b \in Requests :
          (~FnStarted(b) /\ FnStarted(b)') =>
            /\ Head(validatorQueue[reqSchema[b]]) = b
            /\ \A a \in Requests \ { b } :
                 reqSchema[a] = reqSchema[b] => ~FnStarted(a)]_vars
  /\ [][\A s \in Schemas : \A a \in Requests :
          (InQueue(a, s) /\ ~InQueue(a, s)') => reqPc[a] = "returned"]_vars

\* two requests asked for the same schema, the function of the first has
\* returned and the second is still waiting
C11_Witness ==
  \E s \in Schemas : \E a, b \in Requests :
    /\ AskedBefore(a, b, s)
    /\ reqPc[a] = "returned"
    /\ reqPc[b] = "queued"

\* no other call on the schema of request r is waiting or running
SlotFree(r) ==
  \A q \in Requests \ { r } :
    reqSchema[q] = reqSchema[r] => reqPc[q] \in { "idle", "done" }

\* the slot of some schema other than the one of request r is held
OtherSlotHeld(r) ==
  \E q \in Requests \ { r } :
    /\ reqSchema[q] \notin { "none", reqSchema[r] }
    /\ reqPc[q] \in { "compiling", "fn", "returned" }

\* the next step of the withValidator call of request r
StepOf(r) ==
  \/ StartCompile(r)
  \/ AcquireInit(r)
  \/ AcquireLint(r)
  \/ AcquireDocument(r)
  \/ FnLintResume(r)
  \/ Release(r)

\* C12: a withValidator call on a schema never waits for a call on another
\* schema: whatever calls hold the slots of the other schemas, a call whose
\* own slot is free can take its next step, from the moment it asks until it
\* has resolved.
C12_SchemasIndependent ==
  \A r \in Requests :
    (reqPc[r] \in { "queued", "compiling", "fn", "returned" } /\ SlotFree(r))
      => ENABLED StepOf(r)

\* a call waits for a free slot while the slot of another schema is held
C12_Witness ==
  \E r \in Requests :
    /\ reqPc[r] = "queued"
    /\ SlotFree(r)
    /\ OtherSlotHeld(r)

\* C13: the validator of a schema is compiled at most once, whatever the
\* calls and their interleaving; once compiled it is never compiled again,
\* and a function that runs does so with the one compiled validator.
C13_CompiledOnce ==
  /\ [](\A s \in Schemas : compiled[s] <= 1)
  /\ [](\A r \in Requests : FnStarted(r) => compiled[reqSchema[r]] = 1)
  /\ [][\A s \in Schemas : compiled[s] = 1 => compiled'[s] = 1]_vars

\* two calls asked for a schema that has no validator yet: the first one
\* compiles it while the second one waits for the slot
C13_Witness ==
  \E s \in Schemas : \E a, b \in Requests :
    /\ AskedBefore(a, b, s)
    /\ reqPc[a] = "compiling"
    /\ reqPc[b] = "queued"


\* ------------------------------------------------------------------------
\* C14 .. C16: the attempts of the recovery parser and their consumers
\* ------------------------------------------------------------------------

\* C14: for an editing line of length N, attemptParsesAtLine makes at most
\* N + 1 attempts; the first one is the line as given with deletions = 0,
\* every later one has one more deletion and is the text of the one before
\* without its last character, so deletions increases strictly.
C14_AttemptsBounded ==
  /\ Len(aTried) <= Len(aLine) + 1
  /\ aTried # << >> =>
       /\ aTried[1].deletions = 0
       /\ aTried[1].text = aLine
  /\ \A i \in 1..(Len(aTried) - 1) :
       /\ aTried[i].deletions < aTried[i + 1].deletions
       /\ aTried[i + 1].deletions = aTried[i].deletions + 1
       /\ aTried[i].text # << >>
       /\ aTried[i + 1].text =
            SubSeq(aTried[i].text, 1, Len(aTried[i].text) - 1)

\* a line of two characters or more was tried down to the empty text
C14_Witness ==
  /\ Len(aLine) >= 2
  /\ Len(aTried) = Len(aLine) + 1
  /\ aTried[Len(aTried)].text = << >>

\* no text tried for the request has parsed
NothingParsed == \A i \in 1..Len(aTried) : ~aTried[i].parsed

\* the function returned no lint and no completion
EmptyAnswer ==
  IF aKind = "validation"
  THEN aResult = [ tag |-> "lints", lints |-> {} ]
  ELSE aResult.tag = "false" \/ aResult.completions = {}

\* C15 as stated: when no truncation of the editing line parses, the lint
\* function returns the empty list and the completion function returns no
\* completions.
C15_NoParseNoAnswer ==
  (aPc = "done" /\ NothingParsed) => EmptyAnswer

\* C15, amended: when no truncation of the editing line parses, the lint
\* function returns the empty list, and the completion function returns no
\* completions unless the line is whitespace-only; on a whitespace-only
\* line the completion function attempts no parse at all and answers with
\* the key completions located from indentation.
C15_NoParseNoAnswerUnlessBlank ==
  /\ (aPc = "done" /\ NothingParsed /\ ~OnBlankLine) =>
       /\ EmptyAnswer
       /\ Len(aTried) = Len(aLine) + 1
  /\ (aPc = "done" /\ OnBlankLine) =>
       /\ aTried = << >>
       /\ aResult.tag = "completions"
       /\ aResult.pathFrom = "indentation"
       /\ \A c \in aResult.completions : c.type = "key"

\* a completion on a line that is not blank ended after every truncation
\* failed to parse
C15_Witness ==
  /\ aPc = "done"
  /\ aKind = "completions"
  /\ ~OnBlankLine
  /\ NothingParsed
  /\ Len(aTried) = Len(aLine) + 1
  /\ aResult.tag = "false"

\* C16: the completion answered from the attempt with deletions = d used
\* the cursor column of the editing line minus d against the truncated
\* text; adding d back gives the column on the editing line, and the
\* corrected column is neither negative nor beyond the end of the truncated
\* text.
C16_ColumnCorrected ==
  (aPc = "done" /\ aResult.tag = "completions" /\ aTried # << >>) =>
    LET attempt == aTried[Len(aTried)]
    IN /\ aResult.deletions = attempt.deletions
       /\ aResult.line = attempt.text
       /\ aResult.column + attempt.deletions = aColumn
       /\ aResult.column >= 0
       /\ aResult.column <= Len(attempt.text)

\* a completion in a code cell answered from an attempt with deletions
C16_Witness ==
  /\ aPc = "done"
  /\ aResult.tag = "completions"
  /\ aTried # << >>
  /\ aResult.deletions >= 1
  /\ aPrefix > 0
  /\ aResult.line # << >>


\* ------------------------------------------------------------------------
\* C17, C18: schema navigation
\* ------------------------------------------------------------------------

\* the alternative accepts the one-segment path: an object with a property
\* of that name, or an array for an index
Accepts(alt, segment) ==
  \/ alt.type = "object" /\ segment \in DOMAIN alt.properties
  \/ alt.type = "array" /\ segment \notin Keys

\* the schema the alternative gives for a segment it accepts
SubSchema(alt, segment) ==
  IF alt.type = "object" THEN alt.properties[segment] ELSE alt.items

\* the places of the alternatives that accept the segment
Accepting(alts, segment) ==
  { i \in 1..Len(alts) : Accepts(alts[i], segment) }

\* C17: for a union of k alternatives at the root and a one-segment path
\* valid in exactly j of them, navigateSchema returns exactly j schemas: the
\* sub-schema of each accepting alternative, in the order of the
\* alternatives; an alternative that does not accept the segment adds
\* nothing and takes nothing away.
C17_UnionKeepsValidBranches ==
  (nPc = "done" /\ nSchema.type = "anyOf" /\ Len(nPath) = 1) =>
    LET alts == nSchema.anyOf
        acc == Accepting(alts, nPath[1])
    IN /\ Len(nResult) = Cardinality(acc)
       /\ \A i \in acc :
            nResult[Cardinality({ h \in acc : h <= i })] =
              SubSchema(alts[i], nPath[1])

\* a union of two alternatives of which exactly one accepts the segment
C17_Witness ==
  /\ nPc = "done"
  /\ nSchema.type = "anyOf"
  /\ Len(nPath) = 1
  /\ Len(nSchema.anyOf) = 2
  /\ Accepting(nSchema.anyOf, nPath[1]) = { 2 }
  /\ Len(nResult) = 1

\* C18: for every schema, a union included, navigateSchema with the empty
\* path returns the one-element collection made of the schema itself.
C18_EmptyPathReturnsSchema ==
  (nPc = "done" /\ nPath = << >>) => nResult = << nSchema >>

\* the empty path was navigated in a union of two alternatives
C18_Witness ==
  /\ nPc = "done"
  /\ nPath = << >>
  /\ nSchema.type = "anyOf"
  /\ Len(nSchema.anyOf) = 2
  /\ nResult = << nSchema >>


\* ------------------------------------------------------------------------
\* C19, C20: mapped text
\* ------------------------------------------------------------------------

\* C19: every mapped text made by asMappedString and any sequence of
\* mappedString calls satisfies the map invariant: the output ranges of its
\* map are sorted, contiguous and non-overlapping, and together they span
\* exactly the offsets 0 to value.length.
C19_MapInvariant ==
  LET map == mText.map
  IN /\ map = << >> => mText.value = << >>
     /\ map # << >> =>
          /\ map[1].start = 0
          /\ map[Len(map)].end = Len(mText.value)
     /\ \A i \in 1..Len(map) : map[i].start <= map[i].end
     /\ \A i \in 1..(Len(map) - 1) : map[i + 1].start = map[i].end

\* a text of two map segments that do not start at the root start, made by
\* three nested mappedString calls
C19_Witness ==
  /\ mPc = "text"
  /\ mDepth = 3
  /\ Len(mText.map) = 2
  /\ mText.map[1].src > mText.map[2].src

\* C20: for a mapped text made from the root text by up to three nested
\* slicing steps and every offset o of it, the root offset that the map
\* gives for o is the one found by following the slice starts by hand, and
\* the character at o is the character of the root text at that offset.
C20_ProvenanceKept ==
  (mPc = "text" /\ mDepth <= 3) =>
    /\ Len(mTrace) = Len(mText.value)
    /\ \A o \in 0..(Len(mText.value) - 1) :
         /\ Locate(mText, o) = mTrace[o + 1]
         /\ mText.value[o + 1] = mRoot[Locate(mText, o) + 1]

\* the front matter line of a document, reached through the cell and the
\* two cuts of trimTicks or through the slice of validateDocumentFromSource
\* and further cuts: three slices deep, away from the start of the root
C20_Witness ==
  /\ mPc = "text"
  /\ mDepth = 3
  /\ mText.value = << "\n", "a", "\n" >>
  /\ Locate(mText, 1) = 4
  /\ Len(mRoot) > 9


\* ------------------------------------------------------------------------
\* C27, C29, C30: what the completion and lint functions answer from the
\* attempts
\* ------------------------------------------------------------------------

\* t is the last word of the line after its spaces
LastWord(t, line) ==
  /\ Len(t) <= Len(line)
  /\ SubSeq(line, Len(line) - Len(t) + 1, Len(line)) = t
  /\ \A i \in 1..Len(t) : t[i] # " "
  /\ Len(t) < Len(line) => line[Len(line) - Len(t)] = " "

\* C27: the token of a completion answer is the last space-separated word of
\* the editing line up to the cursor, or the empty string when the line ends
\* with "-" or ":", and every completion returned has a value that starts
\* with the token.
C27_CompletionsStartWithToken ==
  (aPc = "done" /\ aResult.tag = "completions") =>
    /\ IF aLine # << >> /\ aLine[Len(aLine)] \in { "-", ":" }
         THEN aResult.token = << >>
         ELSE LastWord(aResult.token, aLine)
    /\ \A c \in aResult.completions :
         /\ Len(c.value) >= Len(aResult.token)
         /\ \A i \in 1..Len(aResult.token) : c.value[i] = aResult.token[i]

\* a completion answered on a line with a word after a space: a value that
\* starts with the word is returned
C27_Witness ==
  /\ aPc = "done"
  /\ aResult.tag = "completions"
  /\ aResult.token = << "a" >>
  /\ Len(aLine) >= 2
  /\ aLine[Len(aLine) - 1] = " "
  /\ aResult.completions # {}

\* C29: when locateCursor reports withError for the attempt the answer is
\* made from, the path handed to the schema navigation is the one
\* locateFromIndentation gives for the truncated line and the corrected
\* column (less a last segment equal to the token, which is popped from a
\* path of either origin), never the path locateCursor returned.
C29_FallBackToIndentation ==
  (aPc = "done" /\ aResult.tag = "completions" /\ aResult.withError) =>
    LET p == aResult.indentPath
    IN /\ aResult.pathFrom = "indentation"
       /\ aResult.line = SubSeq(aLine, 1, Len(aLine) - aResult.deletions)
       /\ aResult.column = aColumn - aResult.deletions
       /\ IF p # << >> /\ p[Len(p)] = aResult.token
            THEN aResult.path = SubSeq(p, 1, Len(p) - 1)
            ELSE aResult.path = p

\* a completion answered from a truncated attempt whose location failed: the
\* path is the whole path located from indentation
C29_Witness ==
  /\ aPc = "done"
  /\ aResult.tag = "completions"
  /\ aResult.withError
  /\ aResult.deletions >= 1
  /\ aResult.indentPath = << << "b" >>, << "a" >> >>
  /\ aResult.path = aResult.indentPath

\* the attempts the validator has validated
Validated == { i \in 1..Len(aTried) : aTried[i].validated }

\* C30: validationFromGoodParseYAML hands exactly one attempt to the
\* validator, the first one in sequence order whose annotation is not null:
\* an attempt whose annotation is null is skipped and never validated, no
\* attempt is consumed after the validated one, and the lints returned are
\* exactly the errors of that validation (none when nothing was validated).
C30_FirstAnnotatedAttemptValidated ==
  aKind = "validation" =>
    /\ Cardinality(Validated) <= 1
    /\ \A i \in 1..Len(aTried) :
         /\ aTried[i].annotation = "null" => ~aTried[i].validated
         /\ aTried[i].validated =>
              /\ aTried[i].annotation = "tree"
              /\ i = Len(aTried)
              /\ aPc = "done"
              /\ \A j \in 1..(i - 1) : aTried[j].annotation # "tree"
    /\ aPc = "done" =>
         /\ aResult.tag = "lints"
         /\ aResult.lints =
              UNION { aTried[i].errors : i \in Validated }
         /\ Validated = {} => Len(aTried) = Len(aLine) + 1

\* a lint answered with the error of the one attempt validated, after an
\* attempt whose annotation was null and before the line was exhausted
C30_Witness ==
  /\ aPc = "done"
  /\ aKind = "validation"
  /\ Len(aTried) >= 2
  /\ Len(aTried) <= Len(aLine)
  /\ \E j \in 1..(Len(aTried) - 1) : aTried[j].annotation = "null"
  /\ aTried[Len(aTried)].validated
  /\ aResult.lints = { "error" }


\* ------------------------------------------------------------------------
\* C28: where a request lets another request run
\* ------------------------------------------------------------------------

\* another request than r takes a step
OtherRequestRuns(r) == \E q \in Requests \ { r } : reqPc'[q] # reqPc[q]

\* C28 as stated: a lint request lets another request run only while it
\* waits for the slot of its schema or for the first compilation of the
\* validator; once its function has the validator, no other request runs
\* until the function has returned.
C28_NoSuspensionInsideSlot ==
  [][ \A r \in Requests :
        (reqKind[r] = "lint" /\ reqPc[r] = "fn") => ~OtherRequestRuns(r) ]_vars


\* ------------------------------------------------------------------------
\* C21 .. C24: the dispatch of a request on a markdown document
\* ------------------------------------------------------------------------

\* the cursor row is in the line range of the cell
RowInCell(cell, row) ==
  /\ cell.cellStartLine <= row
  /\ row < cell.cellStartLine + adjustedCellSize(cell)

\* getAutomation has dispatched a completion request on a markdown document
CompletionDispatched ==
  /\ tKind = "completions"
  /\ tFiletype = "markdown"
  /\ \/ tPc = "engine"
     \/ tPc = "done" /\ tResult.from = "automation"

\* C21 as stated: a completion request on a markdown document is dispatched
\* to the cell whose line range contains the cursor row, cellStartLine <=
\* row < cellStartLine + adjusted size, and a cursor row in the line range
\* of no cell is dispatched to no cell.
C21_DispatchToCellOfRow ==
  CompletionDispatched =>
    /\ \A k \in 1..Len(tCalls) : RowInCell(tCells[tCalls[k].cell], tRow)
    /\ (\A i \in 1..Len(tCells) : ~RowInCell(tCells[i], tRow)) =>
         tCalls = << >>

\* C22 as stated: the position handed to the option completer of a code
\* cell has the document row minus the starting line of the cell minus the
\* two fence lines, and the document column minus the length of the comment
\* prefix; the lint path computes the same row for the same cell.
C22_CellRelativePosition ==
  CompletionDispatched =>
    \A k \in 1..Len(tCalls) :
      tCalls[k].engine = "script" =>
        LET cell == tCells[tCalls[k].cell]
        IN /\ tCalls[k].row = tRow - cell.cellStartLine - 2
           /\ tCalls[k].column = tColumn - Len(kCommentPrefix)
           /\ tCalls[k].row = LintRow(tCells, tCalls[k].cell, tRow)

\* the completer a completion request was dispatched to, "none" if none
CompleterCalled ==
  IF tCalls = << >> THEN "none" ELSE tCalls[1].engine

\* C23 as stated: a completion request goes to the front matter completer
\* exactly when the cell of the cursor is a front matter cell, to the option
\* completer exactly when it is a code cell whose language has a schema, and
\* otherwise no completer is called, nothing is raised and the answer is no
\* completion.
C23_DispatchByCellKind ==
  CompletionDispatched =>
    LET isFrontMatter == tFound # 0 /\ tCells[tFound].cell_type = "raw"
        isCodeWithSchema ==
          /\ tFound # 0
          /\ tCells[tFound].cell_type = "code"
          /\ tCells[tFound].language \in LanguagesWithSchema
    IN /\ CompleterCalled = "yaml" <=> isFrontMatter
       /\ CompleterCalled = "script" <=> isCodeWithSchema
       /\ (~isFrontMatter /\ ~isCodeWithSchema) =>
            /\ CompleterCalled = "none"
            /\ tPc = "done"
            /\ tResult.tag = "null"
            /\ ~tResult.raised

\* C24 as stated: an internal error raised during a lint or completion
\* request reaches the caller of the request as a failure and is never
\* turned into the answer for no result.
C24_InternalErrorsPropagate ==
  (tPc = "done" /\ tResult.raised) => tResult.tag = "rejected"

\* ------------------------------------------------------------------------
\* validateDocumentFromSource
\* ------------------------------------------------------------------------

\* the first line opens a front matter that no later line closes
FrontMatterNeverClosed ==
  /\ pc = "done"
  /\ yamlRegEx(doc[1])
  /\ inYaml
  /\ ~parsedFrontMatter

\* C25: for every document whose front matter is opened by a "---" first
\* line and never closed, validateDocumentFromSource raises and no validator
\* has run: it neither goes on to the cells nor returns lints
C25_UnclosedFrontMatterRaises ==
  (FrontMatterNeverClosed /\ dPc # "lines") => (dPc = "threw" /\ dLog = << >>)

\* the errors of the runs of the log, in the order of the log
ErrorsOfLog(log) ==
  Flat([ k \in 1..Len(log) |->
           IF log[k].outcome = "invalid"
             THEN ErrorsOfCell(log[k].cell) ELSE << >> ])

\* the code cells with a schema from cell i on
ValidatedCells(i) ==
  { j \in i..Len(cells) : ~SkippedCell(cells[j]) }

\* C26: schema mismatches are returned, never thrown: the result is the
\* errors of the front matter followed by the ValidationErrors of the code
\* cells in document order, every code cell with a schema is validated even
\* after a cell with errors, and only an error that is not a
\* ValidationError ends the validation with an exception
C26_MismatchesReturnedInOrder ==
  /\ dPc \in { "cells", "returned" } =>
       /\ dResult = ErrorsOfLog(dLog)
       /\ \A k \in 1..Len(dLog) : dLog[k].outcome # "throws"
       /\ \A k \in 1..Len(dLog) : dLog[k].run = "front-matter" => k = 1
       /\ \A k, l \in 1..Len(dLog) : k < l => dLog[k].cell < dLog[l].cell
  /\ dPc = "returned" /\ cells # << >> =>
       \A j \in ValidatedCells(IF StartsWithDashes(cells[1]) THEN 2 ELSE 1) :
         \E k \in 1..Len(dLog) : dLog[k].cell = j /\ dLog[k].run = "cell"
  /\ dPc = "threw" /\ dLog # << >> =>
       dLog[Len(dLog)].outcome = "throws"

\* lints of two runs are returned, the second run after a run with errors
C26_Witness ==
  /\ dPc = "returned"
  /\ Len(dLog) >= 2
  /\ dLog[1].outcome = "invalid"
  /\ dLog[2].outcome = "invalid"
  /\ Len(dResult) = 2

\* ------------------------------------------------------------------------
\* The types of the completions and the line
\* ------------------------------------------------------------------------

\* the line holds the character
HasChar(line, ch) == \E i \in 1..Len(line) : line[i] = ch

\* every completion of the answer is of the type
AllOfType(type) == \A c \in aResult.completions : c.type = type

\* completionsFromGoodParseYAML has answered with completions
CompletionsAnswered == aPc = "done" /\ aResult.tag = "completions"

\* the line of the answer once the deletions of its attempt are taken off
AnsweredLineAfterDeletions ==
  Substring(aLine, Len(aLine) - aResult.deletions)

\* C31 as stated: a whitespace-only line returns keys only, a non-blank
\* line with ":" returns values only, a non-blank line with neither ":" nor
\* "-" returns keys only
C31_TypeByLine ==
  CompletionsAnswered =>
    /\ TrimIsEmpty(aLine) => AllOfType("key")
    /\ (~TrimIsEmpty(aLine) /\ HasChar(aLine, ":")) => AllOfType("value")
    /\ (~TrimIsEmpty(aLine) /\ ~HasChar(aLine, ":")
          /\ ~HasChar(aLine, "-")) => AllOfType("key")

\* C31 amended: when the line, or the line left by the deletions of the
\* attempt that parsed, is whitespace only, every completion is a key;
\* otherwise a line with ":" returns values only and a line with neither
\* ":" nor "-" returns keys only
C31_TypeByLineAfterDeletions ==
  CompletionsAnswered =>
    IF TrimIsEmpty(AnsweredLineAfterDeletions)
      THEN AllOfType("key")
      ELSE /\ HasChar(aLine, ":") => AllOfType("value")
           /\ (~HasChar(aLine, ":") /\ ~HasChar(aLine, "-")) =>
                AllOfType("key")

\* a line with ":" is answered with completions after its attempt deleted
\* the line down to whitespace
C31_Witness ==
  /\ CompletionsAnswered
  /\ HasChar(aLine, ":")
  /\ aResult.completions # {}
  /\ aResult.deletions > 0
  /\ TrimIsEmpty(AnsweredLineAfterDeletions)

\* ------------------------------------------------------------------------
\* trimTicks twice, and the range of the front matter
\* ------------------------------------------------------------------------

\* C34: trimTicks is idempotent: the code that a trimTicks step leaves is
\* kept as it is by another trimTicks, so the paths that apply it twice
\* work on the text of a single application and lose no character of the
\* YAML between the delimiters
C34_TrimTicksIdempotent ==
  [][TrimTicks => trimTicksValue(mText'.value) = mText'.value]_vars

\* the first cell is taken as front matter: its text starts with "---" and
\* ends with "---"
AcceptedAsFrontMatter(value) ==
  /\ HasPrefix(value, Dashes)
  /\ Len(value) >= 3
  /\ SubSeq(value, Len(value) - 2, Len(value)) = Dashes

\* the lines first to last of a text, with the line terminators between
\* them
LinesBetween(value, first, last) ==
  LET lr == rangedLines(value)
  IN IF first > last THEN << >>
     ELSE SubSeq(value, lr[first].start + 1, lr[last].end)

\* C35: for every first cell taken as front matter, the range cut out for
\* validation has 0 <= start <= end <= length of the text and holds the
\* lines strictly between the first and the last line: the empty text for a
\* cell of the two delimiter lines
C35_FrontMatterRangeInside ==
  (mPc = "text" /\ AcceptedAsFrontMatter(mText.value)) =>
    LET n == Len(rangedLines(mText.value))
        range == FrontMatterRange(mText.value)
    IN /\ n >= 2
       /\ 0 <= range.start
       /\ range.start <= range.end
       /\ range.end <= Len(mText.value)
       /\ Cut(mText.value, << range >>) = LinesBetween(mText.value, 2, n - 1)
       /\ n = 2 => Cut(mText.value, << range >>) = << >>

\* ------------------------------------------------------------------------
\* Completions asked on a delimiter line
\* ------------------------------------------------------------------------

\* the cursor of a completion request is on a "---" line of the YAML block
\* it is in: the code of a yaml request, or the front matter cell of a
\* markdown document
OnDelimiterLine ==
  /\ tKind = "completions"
  /\ tFiletype \in { "yaml", "markdown" }
  /\ \E i \in 1..Len(tCells) :
       /\ tCells[i].cell_type = "raw"
       /\ tCells[i].cellStartLine <= tRow
       /\ tRow < tCells[i].cellStartLine + Len(tCells[i].lines)
       /\ tCells[i].lines[tRow - tCells[i].cellStartLine + 1] = "---"

\* C32: a completion request with the cursor on a "---" delimiter line of
\* the YAML block reports no completions, and no YAML function, so no
\* parse, is started for it
C32_NoCompletionsOnDelimiter ==
  (OnDelimiterLine /\ tPc \in { "engine", "done" }) =>
    /\ tCalls = << >>
    /\ tPc = "done"
    /\ tResult.tag = "null"

\* ------------------------------------------------------------------------
\* initAutomation and the calls that come while it runs
\* ------------------------------------------------------------------------

\* the initialization begun by initAutomation has not completed
InitRunning == \E q \in Requests : reqKind[q] = "init"

\* C36: across any interleaving of the entry points, no call is in
\* getAutomation while the initialization begun by initAutomation has not
\* completed, and at most one call runs the body of the initialization
C36_InitCompletedBeforeAutomation ==
  /\ \A r \in Requests : reqKind[r] = "lint" => ~InitRunning
  /\ Cardinality({ q \in Requests : reqKind[q] = "init" }) <= 1
  /\ InitRunning => automationInit

\* ------------------------------------------------------------------------
\* The lines of a front matter cell
\* ------------------------------------------------------------------------

\* C37: every raw cell of breakQuartoMd has at least two lines, and its
\* first and its last line match yamlRegEx
C37_RawCellDelimited ==
  \A i \in 1..Len(cells) :
    cells[i].cell_type = RawCell =>
      /\ Len(cells[i].source) >= 2
      /\ yamlRegEx(StripNl(cells[i].source[1]))
      /\ yamlRegEx(StripNl(cells[i].source[Len(cells[i].source)]))

\* ------------------------------------------------------------------------
\* A front matter that is closed
\* ------------------------------------------------------------------------

\* the line opens or closes a fence
FenceLine(line) == startCodeRegEx(line) \/ startCodeCellRegEx(line)

\* the first line of the document is a delimiter and a later line is one
\* too, with no fence line between them
ProperlyClosed ==
  /\ doc # << >>
  /\ yamlRegEx(doc[1])
  /\ \E j \in 2..Len(doc) :
       /\ yamlRegEx(doc[j])
       /\ \A k \in 2..(j - 1) : ~FenceLine(doc[k])

\* the error "Expected front matter to end with '---'" was raised
ExpectedEndRaised ==
  /\ dPc = "threw"
  /\ dLog = << >>
  /\ StartsWithDashes(cells[1])
  /\ ~SourceEndsWithDashes(cells[1])

\* C38: for every document with a properly closed front matter,
\* validateDocumentFromSource does not raise the error "Expected front
\* matter to end with '---'"
C38_ClosedFrontMatterAccepted ==
  (pc = "done" /\ ProperlyClosed) => ~ExpectedEndRaised

\* ------------------------------------------------------------------------
\* The book renderer
\* ------------------------------------------------------------------------

\* C33: when onComplete is called with error set, after any onRender
\* calls, every accumulated executed file is cleaned up and the result
\* holds no rendered files
C33_ErrorCleansUpAndReturnsNoFiles ==
  (bPc = "returned" /\ bResult.onError) =>
    /\ \A f \in bAccumulated : bCleaned[f] >= 1
    /\ bResult.files = << >>

\* C39: each executed file accumulated for a single-file format is cleaned
\* up exactly once by the time onComplete returns, on every path, and
\* never twice
C39_CleanedUpExactlyOnce ==
  /\ \A f \in BookFiles : bCleaned[f] <= 1
  /\ bPc = "returned" => \A f \in bAccumulated : bCleaned[f] = 1

\* ------------------------------------------------------------------------
\* The label validators
\* ------------------------------------------------------------------------

\* call k comes after a call of the same validator that accepted a cell
\* with the same label
SeenBefore(k) ==
  \E j \in 1..(k - 1) :
    /\ lLog[j].validator = lLog[k].validator
    /\ ~lLog[j].raised
    /\ cellLabel(lLog[j].cell) = cellLabel(lLog[k].cell)

\* the labels of the cells validator v accepted, the empty one left out
AcceptedLabels(v) ==
  { cellLabel(lLog[k].cell) :
      k \in { j \in 1..Len(lLog) :
                /\ lLog[j].validator = v
                /\ ~lLog[j].raised
                /\ cellLabel(lLog[j].cell) # << >> } }

\* C40: a call of a label validator raises exactly when the label of the
\* cell is not empty and is the label of a cell the same validator accepted
\* before; the labels a validator holds are the non-empty labels of the
\* cells it accepted, so an empty label is never recorded, a call that
\* raises records nothing, and validators share no labels
C40_RaisesOnDuplicateLabel ==
  /\ \A k \in 1..Len(lLog) :
       lLog[k].raised <=>
         (cellLabel(lLog[k].cell) # << >> /\ SeenBefore(k))
  /\ \A v \in 1..Len(lLabels) : lLabels[v] = AcceptedLabels(v)

\* a validator raised on a label it held, and the other validator then
\* accepted a cell with that label
C40_Witness ==
  \E j, k \in 1..Len(lLog) :
    /\ j < k
    /\ lLog[j].raised
    /\ ~lLog[k].raised
    /\ lLog[k].validator # lLog[j].validator
    /\ cellLabel(lLog[k].cell) = cellLabel(lLog[j].cell)

====
